---------------------------- MODULE Spec2Model ----------------------------
(***************************************************************************)
(* Review normalisation and date reconciliation of reviewinsighter.        *)
(*                                                                         *)
(*   server/naver_api.py                 search_naver, strip_html,         *)
(*                                       is_likely_user_review             *)
(*   server/naver_cafe_real_date_only.py extract_real_date_only,           *)
(*                                       filter_cafe_by_real_date_only     *)
(*   server/store_api.py                 crawl_google_play,                *)
(*                                       crawl_apple_store                 *)
(*   server/crawler.py                   crawl_service_by_selection        *)
(*                                                                         *)
(* A text is a sequence of characters, each character a one-element        *)
(* string.  TLA+ strings are ASCII, so a Hangul syllable is one character  *)
(* written in romanisation: "nyeon" is the syllable of U+B144 (year),      *)
(* "wol" U+C6D4 (month), "il" U+C77C (day), "teuk" "bo" the two syllables  *)
(* of the news term of naver_cafe_real_date_only.py:410, "uu" "ri" "ga"    *)
(* "ge" the four syllables of the product name ("uu" is U+C6B0, written so *)
(* to keep it apart from the Latin letter u).                              *)
(***************************************************************************)
EXTENDS Integers, Sequences, FiniteSets, TLC

VARIABLES
    pc,          \* position of the operation under way
    stripIn,     \* strip_html / clean_html: the argument
    stripOut1,   \* strip_html(x)
    stripOut2,   \* strip_html(strip_html(x))
    cleanOut1,   \* clean_html(x)
    cleanOut2,   \* clean_html(clean_html(x))
    today,       \* date.today()
    xItem,       \* extract_real_date_only: the argument cafe_info
    xpc,         \* extract_real_date_only: the step under way
    xIdx,        \* extract_real_date_only: the index of the next GET of the step
    xDate,       \* extract_real_date_only: the value returned, None for None
    xTier,       \* the step that returned xDate
    xHttp,       \* the HTTP requests the call has issued, in order
    xAnswered,   \* some request of the call was answered with status 200
    fMode,       \* the cafe loop under way: "range" is
                 \* filter_cafe_by_real_date_only, "norange" crawler.py:299-370
    fService,    \* the cafe loop's service_name
    fStart,      \* the cafe loop's date range (start_dt, end_dt), None for none
    fEnd,
    fMax,        \* filter_cafe_by_real_date_only: max_results
    fItems,      \* the items the cafe loop walks (cafe_results, naver_cafes)
    fIdx,               \* the index of the item the loop is at
    filtered_results,   \* the reviews the loop has built
    processed_count,    \* filter_cafe_by_real_date_only: items taken up
    excluded_count,     \* filter_cafe_by_real_date_only: items without a date
    fFrom,       \* for each review of filtered_results, the index of its item
    fTier,       \* for each item walked, the step that dated it, or "skipped"
    likely,      \* is_likely_user_review of each item of fItems
    search_type, \* search_naver: the argument
    display,     \* search_naver: the argument
    sQuery,      \* search_naver: the index of the query the loop is at
    all_results, \* search_naver: the items kept so far
    seen_links,  \* search_naver: the links of the items kept so far
    sGot,        \* the items of the pages the call has received, in order
    sCall,       \* 1 for the first call, 2 for the call that follows it
    sFeed,       \* second call: the page Naver answers with
    sOut,        \* the list the call returned
    service_name,       \* crawl_service_by_selection: the arguments
    selected_channels,
    start_date,
    end_date,
    review_count,
    naver,       \* what Naver holds: for blog and cafe, the pages that
                 \* answer the four queries of each of the first keywords
    result,      \* crawl_service_by_selection: the dictionary returned
    fetched,     \* the calls of the store adapters and their answers
    naver_blogs,   \* the blog loop: the items a search handed back
    bIdx,          \* the index of the item the blog loop is at
    blog_results,  \* the reviews the blog loop has built
    bFrom          \* for each review of blog_results, the index of its item

stripVars == <<stripIn, stripOut1, stripOut2, cleanOut1, cleanOut2>>
xVars == <<today, xItem, xpc, xIdx, xDate, xTier, xHttp, xAnswered>>
fVars == <<fMode, fService, fStart, fEnd, fMax, fItems, fIdx,
           filtered_results, processed_count, excluded_count, fFrom, fTier,
           likely>>
sVars == <<search_type, display, sQuery, all_results, seen_links, sGot, sCall,
           sFeed, sOut>>
cVars == <<service_name, selected_channels, start_date, end_date,
           review_count, naver, result, fetched>>
bVars == <<naver_blogs, bIdx, blog_results, bFrom>>
vars == <<pc, stripVars, xVars, fVars, sVars, cVars, bVars>>

\* what the actions of one component leave alone
notStrip == <<xVars, fVars, sVars, cVars, bVars>>
notX == <<pc, stripVars, fVars, sVars, cVars, bVars>>
notF == <<stripVars, sVars, cVars, bVars>>
notS == <<stripVars, xVars, fVars, cVars, bVars>>
notC == <<stripVars, xVars, fVars, sVars, bVars>>
notB == <<stripVars, xVars, fVars, sVars, cVars>>

(***************************************************************************)
(* Texts                                                                   *)
(***************************************************************************)
\* the concatenation of a sequence of texts
RECURSIVE Flatten(_)
Flatten(ps) ==
    IF ps = <<>> THEN <<>> ELSE Head(ps) \o Flatten(Tail(ps))

\* the sequences of at most n elements of S
SeqsUpTo(S, n) == UNION {[1..k -> S] : k \in 0..n}

\* p occurs in s at position i
OccursAt(s, i, p) ==
    /\ i + Len(p) - 1 <= Len(s)
    /\ \A k \in 1..Len(p) : s[i + k - 1] = p[k]

\* Python's `p in s`
Contains(s, p) ==
    \E t \in {s} : \E i \in 1..(Len(t) + 1) : OccursAt(t, i, p)

\* Python's s.replace(p, r): left to right, non-overlapping
RECURSIVE ReplaceFrom(_, _, _, _)
ReplaceFrom(s, i, p, r) ==
    IF i > Len(s) THEN <<>>
    ELSE IF OccursAt(s, i, p) THEN r \o ReplaceFrom(s, i + Len(p), p, r)
    ELSE <<s[i]>> \o ReplaceFrom(s, i + 1, p, r)

Replace(s, p, r) == ReplaceFrom(s, 1, p, r)

\* \s of the regular expressions, on the characters the model draws
IsSpace(c) == c = " "

\* Python's s.strip()
RECURSIVE LStrip(_)
LStrip(s) ==
    IF s # <<>> /\ IsSpace(Head(s)) THEN LStrip(Tail(s)) ELSE s

RECURSIVE RStrip(_)
RStrip(s) ==
    IF s # <<>> /\ IsSpace(s[Len(s)]) THEN RStrip(SubSeq(s, 1, Len(s) - 1)) ELSE s

Strip(s) == RStrip(LStrip(s))

\* the position of the first ">" of s at or after i, 0 when there is none
RECURSIVE FirstGt(_, _)
FirstGt(s, i) ==
    IF i > Len(s) THEN 0
    ELSE IF s[i] = ">" THEN i
    ELSE FirstGt(s, i + 1)

\* re.sub(r'<[^>]+>', '', s): a tag is "<", one or more characters other
\* than ">", and ">"; matches are taken leftmost and do not overlap
RECURSIVE RemoveTagsFrom(_, _)
RemoveTagsFrom(s, i) ==
    IF i > Len(s) THEN <<>>
    ELSE IF s[i] = "<" /\ FirstGt(s, i + 1) >= i + 2
         THEN RemoveTagsFrom(s, FirstGt(s, i + 1) + 1)
         ELSE <<s[i]>> \o RemoveTagsFrom(s, i + 1)

RemoveTags(s) == RemoveTagsFrom(s, 1)

\* re.sub(r'\s+', ' ', s): every run of whitespace becomes one blank
RECURSIVE CollapseFrom(_, _)
CollapseFrom(s, i) ==
    IF i > Len(s) THEN <<>>
    ELSE IF IsSpace(s[i])
         THEN IF i > 1 /\ IsSpace(s[i - 1]) THEN CollapseFrom(s, i + 1)
              ELSE <<" ">> \o CollapseFrom(s, i + 1)
         ELSE <<s[i]>> \o CollapseFrom(s, i + 1)

CollapseSpaces(s) == CollapseFrom(s, 1)

\* the entity references the code decodes, as texts
EntLt == <<"&", "l", "t", ";">>
EntGt == <<"&", "g", "t", ";">>
EntAmp == <<"&", "a", "m", "p", ";">>
EntQuot == <<"&", "q", "u", "o", "t", ";">>
EntApos == <<"&", "#", "3", "9", ";">>
EntNbsp == <<"&", "n", "b", "s", "p", ";">>
EntHellip == <<"&", "h", "e", "l", "l", "i", "p", ";">>

\* the chain of replace calls shared by every cleaner of the repository:
\* &lt; &gt; &amp; and then &quot; &#39;
DecodeFive(s) ==
    Replace(Replace(Replace(Replace(Replace(s,
        EntLt, <<"<">>), EntGt, <<">">>), EntAmp, <<"&">>),
        EntQuot, <<"\"">>), EntApos, <<"'">>)

\* naver_api.strip_html
strip_html(html_content) ==
    IF html_content = <<>> THEN <<>>
    ELSE Strip(CollapseSpaces(
            Replace(Replace(DecodeFive(RemoveTags(html_content)),
                EntNbsp, <<" ">>), EntHellip, <<".", ".", ".">>)))

\* clean_html, the helper nested in crawl_service_by_selection
clean_html(text) == Strip(DecodeFive(RemoveTags(text)))

DigitChar(n) ==
    <<"0", "1", "2", "3", "4", "5", "6", "7", "8", "9">>[n + 1]

\* the decimal digits of n, at least w of them
RECURSIVE DigitsOf(_, _)
DigitsOf(n, w) ==
    IF n < 10 /\ w <= 1 THEN <<DigitChar(n)>>
    ELSE DigitsOf(n \div 10, w - 1) \o <<DigitChar(n % 10)>>

(***************************************************************************)
(* Calendar dates: datetime.date as <<year, month, day>>                   *)
(***************************************************************************)
None == <<>>

IsLeap(y) == (y % 4 = 0 /\ y % 100 # 0) \/ y % 400 = 0

DaysInMonth(y, m) ==
    IF m = 2 THEN (IF IsLeap(y) THEN 28 + 1 ELSE 28)
    ELSE IF m \in {4, 6, 9, 11} THEN 30 ELSE 31

\* date(y, m, d) does not raise ValueError
ValidYMD(y, m, d) ==
    /\ y \in 1..9999
    /\ m \in 1..12
    /\ d \in 1..DaysInMonth(y, m)

\* a <= b on dates
DateLE(a, b) ==
    \/ a[1] < b[1]
    \/ a[1] = b[1] /\ a[2] < b[2]
    \/ a[1] = b[1] /\ a[2] = b[2] /\ a[3] <= b[3]

NextDay(a) ==
    IF a[3] < DaysInMonth(a[1], a[2]) THEN <<a[1], a[2], a[3] + 1>>
    ELSE IF a[2] < 12 THEN <<a[1], a[2] + 1, 1>>
    ELSE <<a[1] + 1, 1, 1>>

\* a + timedelta(days=n), n >= 0
RECURSIVE AddDays(_, _)
AddDays(a, n) == IF n = 0 THEN a ELSE AddDays(NextDay(a), n - 1)

\* (b - a).days for a <= b
RECURSIVE DaysBetween(_, _)
DaysBetween(a, b) == IF a = b THEN 0 ELSE 1 + DaysBetween(NextDay(a), b)

\* date(2020, 1, 1), the lower end of the window of step 4
WindowStart == <<2020, 1, 1>>

(***************************************************************************)
(* Regular expressions of step 1: re.search over the combined text         *)
(***************************************************************************)
Digits == {"0", "1", "2", "3", "4", "5", "6", "7", "8", "9"}

DigitVal(c) ==
    CASE c = "0" -> 0 [] c = "1" -> 1 [] c = "2" -> 2 [] c = "3" -> 3
      [] c = "4" -> 4 [] c = "5" -> 5 [] c = "6" -> 6 [] c = "7" -> 7
      [] c = "8" -> 8 [] c = "9" -> 9

\* int() of the n digits of s that start at pos
RECURSIVE IntAt(_, _, _)
IntAt(s, pos, n) ==
    IF n = 0 THEN 0
    ELSE IntAt(s, pos, n - 1) * 10 + DigitVal(s[pos + n - 1])

\* the length of the run of digits (of blanks) of s that starts at pos
RECURSIVE DigitRun(_, _)
DigitRun(s, pos) ==
    IF pos <= Len(s) /\ s[pos] \in Digits THEN 1 + DigitRun(s, pos + 1) ELSE 0

RECURSIVE SpaceRun(_, _)
SpaceRun(s, pos) ==
    IF pos <= Len(s) /\ IsSpace(s[pos]) THEN 1 + SpaceRun(s, pos + 1) ELSE 0

Min(a, b) == IF a < b THEN a ELSE b

\* pattern elements: \d{lo,hi} captured, one literal character, \s*
D(lo, hi) == [k |-> "d", lo |-> lo, hi |-> hi, ch |-> ""]
Ch(c) == [k |-> "c", lo |-> 0, hi |-> 0, ch |-> c]
Ws == [k |-> "ws", lo |-> 0, hi |-> 0, ch |-> ""]

NoMatch == <<FALSE, <<>>>>

\* the backtracking matcher: the elements of pat from the k-th on match s
\* at pos; a quantified element is greedy and gives characters back one by
\* one.  The value is <<TRUE, captured numbers>> or NoMatch.
RECURSIVE MatchElems(_, _, _, _), TryCounts(_, _, _, _, _, _)
MatchElems(s, pos, pat, k) ==
    IF k > Len(pat) THEN <<TRUE, <<>>>>
    ELSE CASE pat[k].k = "c" ->
                IF pos <= Len(s) /\ s[pos] = pat[k].ch
                THEN MatchElems(s, pos + 1, pat, k + 1)
                ELSE NoMatch
           [] pat[k].k = "ws" ->
                TryCounts(s, pos, pat, k, SpaceRun(s, pos), 0)
           [] pat[k].k = "d" ->
                TryCounts(s, pos, pat, k,
                          Min(DigitRun(s, pos), pat[k].hi), pat[k].lo)

TryCounts(s, pos, pat, k, n, lo) ==
    IF n < lo THEN NoMatch
    ELSE LET r == MatchElems(s, pos + n, pat, k + 1)
         IN IF r[1]
            THEN <<TRUE, (IF pat[k].k = "d" THEN <<IntAt(s, pos, n)>> ELSE <<>>)
                         \o r[2]>>
            ELSE TryCounts(s, pos, pat, k, n - 1, lo)

\* re.search(pattern, s): the match at the leftmost position that has one
RECURSIVE SearchFrom(_, _, _)
SearchFrom(s, pos, pat) ==
    IF pos > Len(s) THEN NoMatch
    ELSE LET r == MatchElems(s, pos, pat, 1)
         IN IF r[1] THEN r ELSE SearchFrom(s, pos + 1, pat)

re_search(pat, s) == SearchFrom(s, 1, pat)

\* date_patterns of extract_real_date_only, in the order of the list
date_patterns ==
    << <<D(4, 4), Ch("nyeon"), Ws, D(1, 2), Ch("wol"), Ws, D(1, 2), Ch("il")>>,
       <<D(4, 4), Ch("-"), D(1, 2), Ch("-"), D(1, 2)>>,
       <<D(4, 4), Ch("."), D(1, 2), Ch("."), D(1, 2)>>,
       <<D(4, 4), Ch("/"), D(1, 2), Ch("/"), D(1, 2)>>,
       <<D(2, 2), Ch("nyeon"), Ws, D(1, 2), Ch("wol"), Ws, D(1, 2), Ch("il")>> >>

\* the hard-coded year range of the validity checks of steps 1 to 3
MinYear == 2020
MaxYear == 2025

\* the two-digit year rule of step 1
FullYear(year) ==
    IF year < 100 THEN (IF year < 50 THEN 2000 + year ELSE 1900 + year)
    ELSE year

\* the validity check of step 1: year, month and day ranges, then date()
Step1Valid(y, m, d) ==
    /\ MinYear <= y /\ y <= MaxYear
    /\ 1 <= m /\ m <= 12
    /\ 1 <= d /\ d <= 31
    /\ ValidYMD(y, m, d)

\* step 1: the patterns in order; each contributes its first match only;
\* a first match that fails the check sends the loop to the next pattern
RECURSIVE ExplicitTextFrom(_, _)
ExplicitTextFrom(text, i) ==
    IF i > Len(date_patterns) THEN None
    ELSE LET r == re_search(date_patterns[i], text)
             y == FullYear(r[2][1])
         IN IF r[1] /\ Step1Valid(y, r[2][2], r[2][3])
            THEN <<y, r[2][2], r[2][3]>>
            ELSE ExplicitTextFrom(text, i + 1)

ExplicitTextDate(text) == ExplicitTextFrom(text, 1)

(***************************************************************************)
(* Steps 2 and 3: the date fields of a fetched page                        *)
(*                                                                         *)
(* A page is the sequence of matches re.findall gives on its markup: a hit *)
(* is the index of the enhanced pattern that matches (0 = writeDt ... 13 = *)
(* ISO), the three captured numbers, and whether the match lies after the  *)
(* first 10000 characters, which only step 2 (12000 characters) reads.     *)
(***************************************************************************)
NumEnhancedPatterns == 14

\* patterns 0..3 are the official fields that end the scan of a page
HighPriorityPatterns == 4

RECURSIVE HitsOf(_, _)
HitsOf(hits, idx) ==
    IF hits = <<>> THEN <<>>
    ELSE (IF Head(hits).pat = idx THEN <<Head(hits)>> ELSE <<>>)
         \o HitsOf(Tail(hits), idx)

RECURSIVE EarlyHits(_)
EarlyHits(hits) ==
    IF hits = <<>> THEN <<>>
    ELSE (IF Head(hits).late THEN <<>> ELSE <<Head(hits)>>)
         \o EarlyHits(Tail(hits))

YearInRange(y) == MinYear <= y /\ y <= MaxYear

\* the check of steps 2 and 3 on one match: ranges, date(), not in the future
PageMatchValid(ymd, day) ==
    /\ YearInRange(ymd[1])
    /\ 1 <= ymd[2] /\ ymd[2] <= 12
    /\ 1 <= ymd[3] /\ ymd[3] <= 31
    /\ ValidYMD(ymd[1], ymd[2], ymd[3])
    /\ DateLE(ymd, day)

RECURSIVE FirstValidHit(_, _)
FirstValidHit(ms, day) ==
    IF ms = <<>> THEN None
    ELSE IF PageMatchValid(Head(ms).ymd, day) THEN Head(ms).ymd
    ELSE FirstValidHit(Tail(ms), day)

\* step 2 on one page: the first valid match in pattern order; a pattern
\* below HighPriorityPatterns with a match whose year is in range, none of
\* them valid, ends the scan of this page
RECURSIVE Step2Page(_, _, _)
Step2Page(hits, idx, day) ==
    IF idx >= NumEnhancedPatterns THEN None
    ELSE LET ms == HitsOf(hits, idx)
             v == FirstValidHit(ms, day)
         IN IF v # None THEN v
            ELSE IF idx < HighPriorityPatterns
                    /\ \E k \in 1..Len(ms) : YearInRange(ms[k].ymd[1])
                 THEN None
                 ELSE Step2Page(hits, idx + 1, day)

\* step 3 on one page: the first valid match in pattern order
RECURSIVE Step3Page(_, _, _)
Step3Page(hits, idx, day) ==
    IF idx >= NumEnhancedPatterns THEN None
    ELSE LET v == FirstValidHit(HitsOf(hits, idx), day)
         IN IF v # None THEN v ELSE Step3Page(hits, idx + 1, day)

(***************************************************************************)
(* Step 4: the calibration table                                           *)
(***************************************************************************)
Range(a, b, from, to) ==
    [id_start |-> a, id_end |-> b, date_start |-> from, date_end |-> to]

CalibratedTypes == {"high_activity", "medium_activity", "low_activity"}

cafe_patterns ==
    [name \in {"appleiphone", "koreagift", "stockhouse7", "ainows25",
               "wjdrkrjqn", "rainup", "bonjukbibimbap", "saleagent", "forcso"} |->
        CASE name = "appleiphone" ->
                [type |-> "high_activity",
                 patterns |-> << Range(8812000, 8813000, <<2025, 7, 1>>, <<2025, 7, 5>>),
                                 Range(8810000, 8812000, <<2025, 6, 25>>, <<2025, 7, 1>>) >>]
          [] name = "koreagift" ->
                [type |-> "medium_activity",
                 patterns |-> << Range(18000, 18100, <<2025, 7, 10>>, <<2025, 7, 15>>) >>]
          [] name = "stockhouse7" ->
                [type |-> "low_activity",
                 patterns |-> << Range(120, 140, <<2025, 7, 10>>, <<2025, 7, 20>>) >>]
          [] name = "ainows25" ->
                [type |-> "medium_activity",
                 patterns |-> << Range(3100, 3200, <<2025, 7, 10>>, <<2025, 7, 20>>) >>]
          [] OTHER -> [type |-> "legacy", patterns |-> <<>>]]

\* an interpolation that rounds the days up
RangeDateCeil(r, post_id) ==
    AddDays(r.date_start,
            ((post_id - r.id_start) * DaysBetween(r.date_start, r.date_end)
                + (r.id_end - r.id_start) - 1)
                \div (r.id_end - r.id_start))

\* the date of one range for a post id inside it
RangeDate(r, post_id) ==
    AddDays(r.date_start,
            ((post_id - r.id_start) * DaysBetween(r.date_start, r.date_end))
                \div (r.id_end - r.id_start))

\* the loop over the ranges of a calibrated cafe
RECURSIVE RangeLoop(_, _, _)
RangeLoop(rs, post_id, day) ==
    IF rs = <<>> THEN None
    ELSE LET r == Head(rs)
         IN IF r.id_start <= post_id /\ post_id <= r.id_end
               /\ DateLE(WindowStart, RangeDate(r, post_id))
               /\ DateLE(RangeDate(r, post_id), day)
            THEN RangeDate(r, post_id)
            ELSE RangeLoop(Tail(rs), post_id, day)

(***************************************************************************)
(* Links.  A link is what the regular expressions and split('/') of the    *)
(* code see of it: whether it has a scheme, its host, the cafe name that   *)
(* follows the host (or ""), and the number that ends it (or -1).          *)
(***************************************************************************)
Link(scheme, host, cafe, post) ==
    [scheme |-> scheme, host |-> host, cafe |-> cafe, post |-> post]

EmptyLink == Link(FALSE, "", "", -1)

\* 'cafe.naver.com' in link
HasCafeHost(link) == link.host = "cafe.naver.com"

\* link.split('/')[-2] raises no IndexError: the link holds a "/"
SplitHasTwo(link) == link.scheme \/ link.cafe # "" \/ link.post >= 0

\* re.search(r'/(\d+)$', link)
post_id_match(link) == link.post >= 0

\* re.search(r'cafe\.naver\.com/([^/]+)/', link)
cafe_name_match(link) == HasCafeHost(link) /\ link.cafe # "" /\ link.post >= 0

\* a step 4 that dates a post of any cafe it has no range for with today
IdHeuristicGuess(link, day) ==
    IF post_id_match(link) /\ cafe_name_match(link)
    THEN IF link.cafe \in DOMAIN cafe_patterns
            /\ cafe_patterns[link.cafe].type \in CalibratedTypes
            /\ RangeLoop(cafe_patterns[link.cafe].patterns, link.post, day) # None
         THEN RangeLoop(cafe_patterns[link.cafe].patterns, link.post, day)
         ELSE day
    ELSE None

\* step 4 as a whole: None unless the cafe is calibrated and a range holds
\* the post id
IdHeuristicDate(link, day) ==
    IF post_id_match(link) /\ cafe_name_match(link)
       /\ link.cafe \in DOMAIN cafe_patterns
       /\ cafe_patterns[link.cafe].type \in CalibratedTypes
    THEN RangeLoop(cafe_patterns[link.cafe].patterns, link.post, day)
    ELSE None

(***************************************************************************)
(* extract_real_date_only as a step machine: one action per step, the GET  *)
(* loops one request per firing, the response chosen by the network        *)
(***************************************************************************)
Item(isStr, title, description, link) ==
    [isStr |-> isStr, title |-> title, description |-> description,
     link |-> link, cafename |-> "", extracted_user_id |-> <<>>,
     bloggerlink |-> EmptyLink, bloggername |-> "", postdate |-> <<"missing">>]

NoItem == Item(TRUE, <<>>, <<>>, EmptyLink)

\* combined_text = f"{title} {description}"
combined_text(item) == item.title \o <<" ">> \o item.description

\* the three URL forms of step 2, the three of step 3 and its two header sets
urls_to_try == <<"link", "mobile", "iframe">>
enhanced_urls == <<"link", "mobile", "ca-fe">>
\* a step 3 that knows one set of headers only
headers_one == <<"iphone">>

headers_list == <<"iphone", "desktop">>

Hit(pat, ymd, late) == [pat |-> pat, ymd |-> ymd, late |-> late]

MaxHits == 2

HitSet ==
    {Hit(0, <<2025, 7, 15>>, FALSE), Hit(0, <<2025, 12, 31>>, FALSE),
     Hit(10, <<2025, 7, 15>>, FALSE), Hit(0, <<2025, 2, 30>>, FALSE),
     Hit(0, <<2025, 7, 14>>, TRUE)}

Pages == SeqsUpTo(HitSet, MaxHits)

\* what a GET can give: an exception of requests, a status other than 200,
\* or a page; a link without a scheme makes requests raise MissingSchema
GetResponses(link) ==
    IF link.scheme
    THEN {[kind |-> "exc", hits |-> <<>>], [kind |-> "status", hits |-> <<>>]}
         \cup {[kind |-> "ok", hits |-> pg] : pg \in Pages}
    ELSE {[kind |-> "exc", hits |-> <<>>]}

\* what the HEAD can give: an exception, a status other than 200, 200 with
\* no Last-Modified (lm = None), with one strptime rejects ("bad"), or with
\* a date
HeadDates == {<<2019, 3, 3>>, <<2025, 7, 15>>, <<2025, 12, 31>>}

HeadResponses(link) ==
    IF link.scheme
    THEN {[kind |-> "exc", lm |-> None], [kind |-> "status", lm |-> None],
          [kind |-> "bad", lm |-> None], [kind |-> "ok", lm |-> None]}
         \cup {[kind |-> "ok", lm |-> d] : d \in HeadDates}
    ELSE {[kind |-> "exc", lm |-> None]}

Request(method, url, ua) == [method |-> method, url |-> url, ua |-> ua]

\* response.status_code == 200: neither an exception nor another status
Answered(r) == r.kind \notin {"exc", "status"}

XReturn(d, tier) ==
    /\ xDate' = d
    /\ xTier' = tier
    /\ xpc' = "x_done"
    /\ xIdx' = 0

XGoto(step) ==
    /\ xpc' = step
    /\ xIdx' = 1
    /\ UNCHANGED <<xDate, xTier>>

\* step 1, and the choice of the step that follows it
ExplicitText ==
    /\ xpc = "x_start"
    /\ LET d == ExplicitTextDate(combined_text(xItem))
       IN IF d # None THEN XReturn(d, "ExplicitText")
          ELSE IF HasCafeHost(xItem.link) /\ SplitHasTwo(xItem.link)
               THEN XGoto("x_scrape")
               ELSE XGoto("x_enhanced")
    /\ UNCHANGED <<today, xItem, xHttp, xAnswered, notX>>

\* step 2: one GET of urls_to_try
PageScrapeGet ==
    /\ xpc = "x_scrape"
    /\ xHttp' = Append(xHttp, Request("GET", urls_to_try[xIdx], "chrome91"))
    /\ \E r \in GetResponses(xItem.link) :
          /\ xAnswered' = (xAnswered \/ Answered(r))
          /\ LET d == IF r.kind = "ok" THEN Step2Page(r.hits, 0, today) ELSE None
             IN IF d # None THEN XReturn(d, "PageMetadata")
             ELSE IF xIdx < Len(urls_to_try)
                  THEN /\ xIdx' = xIdx + 1
                       /\ UNCHANGED <<xpc, xDate, xTier>>
                  ELSE XGoto("x_head")
    /\ UNCHANGED <<today, xItem, notX>>

\* the HEAD request that ends step 2: its date is returned as it is parsed
HeadLastModified ==
    /\ xpc = "x_head"
    /\ xHttp' = Append(xHttp, Request("HEAD", "link", "chrome91"))
    /\ \E r \in HeadResponses(xItem.link) :
          /\ xAnswered' = (xAnswered \/ Answered(r))
          /\ IF r.kind = "ok" /\ r.lm # None THEN XReturn(r.lm, "HttpHeader")
             ELSE XGoto("x_enhanced")
    /\ UNCHANGED <<today, xItem, notX>>

\* step 3: one GET of enhanced_urls x headers_list
EnhancedScrapeGet ==
    /\ xpc = "x_enhanced"
    /\ xHttp' = Append(xHttp,
          Request("GET", enhanced_urls[((xIdx - 1) \div Len(headers_list)) + 1],
                  headers_list[((xIdx - 1) % Len(headers_list)) + 1]))
    /\ \E r \in GetResponses(xItem.link) :
          /\ xAnswered' = (xAnswered \/ Answered(r))
          /\ LET d == IF r.kind = "ok"
                      THEN Step3Page(EarlyHits(r.hits), 0, today) ELSE None
             IN IF d # None THEN XReturn(d, "PageMetadata")
             ELSE IF xIdx < Len(enhanced_urls) * Len(headers_list)
                  THEN /\ xIdx' = xIdx + 1
                       /\ UNCHANGED <<xpc, xDate, xTier>>
                  ELSE XGoto("x_id")
    /\ UNCHANGED <<today, xItem, notX>>

\* step 4 and the final return None
IdHeuristic ==
    /\ xpc = "x_id"
    /\ LET d == IdHeuristicDate(xItem.link, today)
       IN IF d # None THEN XReturn(d, "IdHeuristic") ELSE XReturn(None, "None")
    /\ UNCHANGED <<today, xItem, xHttp, xAnswered, notX>>

XIdle ==
    /\ today = None
    /\ xItem = NoItem
    /\ xpc = "x_idle"
    /\ xIdx = 0
    /\ xDate = None
    /\ xTier = ""
    /\ xHttp = <<>>
    /\ xAnswered = FALSE

StripIdle ==
    /\ stripIn = <<>>
    /\ stripOut1 = <<>>
    /\ stripOut2 = <<>>
    /\ cleanOut1 = <<>>
    /\ cleanOut2 = <<>>

(***************************************************************************)
(* The vocabularies of the cafe loops and of is_likely_user_review.  The   *)
(* Hangul terms are written syllable by syllable.                          *)
(***************************************************************************)
UpperLetters ==
    <<"A", "B", "C", "D", "E", "F", "G", "H", "I", "J", "K", "L", "M",
      "N", "O", "P", "Q", "R", "S", "T", "U", "V", "W", "X", "Y", "Z">>

LowerLetters ==
    <<"a", "b", "c", "d", "e", "f", "g", "h", "i", "j", "k", "l", "m",
      "n", "o", "p", "q", "r", "s", "t", "u", "v", "w", "x", "y", "z">>

LowerChar(c) ==
    IF \E i \in 1..Len(UpperLetters) : UpperLetters[i] = c
    THEN LowerLetters[CHOOSE i \in 1..Len(UpperLetters) : UpperLetters[i] = c]
    ELSE c

\* str.lower()
Lower(s) == [i \in 1..Len(s) |-> LowerChar(s[i])]

news_indicators ==
    { <<"nyu", "seu">>, <<"gi", "sa">>, <<"bo", "do">>,
      <<"bo", "do", "ja", "ryo">>, <<"p", "r", "e", "s", "s">>,
      <<"nyu", "seu", "gi", "sa">>, <<"eon", "ron">>, <<"mi", "di", "eo">>,
      <<"gi", "ja">>, <<"chwi", "jae">>, <<"sin", "mun">>, <<"bang", "song">>,
      <<"nyu", "seu", "rum">>, <<"bo", "do", "guk">>, <<"pyeon", "jip", "bu">>,
      <<"n", "e", "w", "s">>, <<"gwan", "ryeon", " ", "gi", "sa">>,
      <<"sok", "bo">>, <<"dan", "dok">>, <<"teuk", "bo">>, <<"il", "bo">>,
      <<"ta", "im", "jeu">>, <<"he", "reol", "deu">> }

\* any(indicator in text_content for indicator in news_indicators)
IsNews(text) ==
    \E s \in {text} : \E t \in news_indicators : Contains(s, t)

uurigage_keywords ==
    { <<"uu", "ri", "ga", "ge">>, <<"uu", "ri", " ", "ga", "ge">> }

lg_or_uplus_keywords ==
    { <<"l", "g">>, <<"l", " ", "g">>, <<"l", "g", "u">>,
      <<"l", "g", " ", "u", "+">>, <<"l", "g", "yu", "peul", "leo", "seu">>,
      <<"yu", "peul", "leo", "seu">>, <<"yu", " ", "peul", "leo", "seu">>,
      <<"yu", "peul">>, <<"u", "p", "l", "u", "s">>,
      <<"u", " ", "p", "l", "u", "s">>, <<"u", "+">>, <<"u", " ", "+">> }

\* has_uurigage and has_lg_or_uplus
SohoRelevant(text) ==
    /\ \E k \in uurigage_keywords : Contains(text, k)
    /\ \E k \in lg_or_uplus_keywords : Contains(text, k)

\* the display names of the three services and the keys of services
Ixio == "iksio"
Soho == "SOHOuurigagepaekiji"
BizCall == "AIbijeukol"

service_mapping ==
    (Ixio :> "ixio") @@ (Soho :> "soho-package") @@ (BizCall :> "ai-bizcall")

ServiceKeys == {"ixio", "ai-bizcall", "soho-package"}

\* service_id_map.get(service_name, "ixio")
service_id_of_filter(svc) ==
    IF svc \in DOMAIN service_mapping THEN service_mapping[svc] ELSE "ixio"

\* service_mapping.get(service_name, service_name.lower().replace(' ', '-')):
\* the keys of services are lower-case and hold no blank
service_id_of_crawler(svc) ==
    IF svc \in DOMAIN service_mapping THEN service_mapping[svc] ELSE svc

\* a filter in which the product keywords outweigh a news term
CafeAcceptsRelevanceFirst(svc, text) ==
    \/ ~IsNews(text)
    \/ svc = Soho /\ SohoRelevant(text)

\* the test filter_cafe_by_real_date_only makes of a dated item's text: no
\* news term, and for the SOHO service both product keywords
CafeAccepts(svc, text) ==
    /\ ~IsNews(text)
    /\ svc = Soho => SohoRelevant(text)

\* the exclusion_keywords of is_likely_user_review that the texts drawn
\* here can hold: its first twenty-two; the other terms are of syllables
\* no text of this module holds
exclusion_keywords == news_indicators \ {<<"nyu", "seu", "gi", "sa">>}

\* the review_indicators that the texts drawn here can hold
review_indicators ==
    { <<"sa", "yong", "hu", "gi">>, <<"hu", "gi">>, <<"ri", "byu">> }

MinReviewLen == 30

\* services[key]["keywords"], lower-cased; every other keyword of a service
\* holds one of those written here
service_keywords ==
    ("soho-package" :>
        { <<"uu", "ri", "ga", "ge">>,
          <<"yu", "peul", "leo", "seu", "so", "ho", "pae", "ki", "ji">> })
    @@ ("ixio" :>
        { <<"ik", "si", "oh">>, <<"i", "x", "i", "o">>,
          <<"i", "x", "i", "-", "o">>, <<"ik", "si", "o">>,
          <<"i", "x", "i", "oh">> })
    @@ ("ai-bizcall" :>
        { <<"a", "i", "bi", "jeu", "kol">>,
          <<"e", "i", "a", "i", "bi", "jeu", "kol">>,
          <<"l", "g", "bi", "jeu", "kol">>,
          <<"yu", "peul", "leo", "seu", "bi", "jeu", "kol">>,
          <<"u", "+", "bi", "jeu", "kol">> })

is_likely_user_review(item, keywords) ==
    \E text \in {Lower(strip_html(item.title)) \o <<" ">>
                  \o Lower(strip_html(item.description))} :
       /\ ~\E k \in exclusion_keywords : Contains(text, k)
       /\ \E sk \in keywords : Contains(text, Lower(sk))
       /\ \E ind \in review_indicators : Contains(text, ind)
       /\ Len(text) >= MinReviewLen

(***************************************************************************)
(* The two cafe loops: filter_cafe_by_real_date_only (a date range is      *)
(* given) and the loop of crawler.py:299-370 (none is given).  Both call   *)
(* extract_real_date_only on an item and build a review of it.             *)
(***************************************************************************)
\* a time stamp: the date, the second of the day, and the zone markers that
\* follow the time in the text ("Z", "-07:00", "+09:00"), in order
Stamp(ymd, sec, zone) == [ymd |-> ymd, sec |-> sec, zone |-> zone]

Review(userId, source, serviceId, appId, rating, content, createdAt, link) ==
    [userId |-> userId, source |-> source, serviceId |-> serviceId,
     appId |-> appId, rating |-> rating, content |-> content,
     createdAt |-> createdAt, link |-> link, platform |-> source]

\* (title + " " + description).lower()
text_content(item) == Lower(item.title \o <<" ">> \o item.description)

\* the tags removed and the five entities decoded
CleanField(s) == DecodeFive(RemoveTags(s))

\* f"{clean_title} {clean_description}"
clean_content(item) ==
    CleanField(item.title) \o <<" ">> \o CleanField(item.description)

\* cafe.get('cafename', default)
cafename_or(item, default) ==
    IF item.cafename = "" THEN default ELSE item.cafename

\* the review filter_cafe_by_real_date_only builds
RangeReview(item, svc, d) ==
    Review(IF item.extracted_user_id # <<>> THEN item.extracted_user_id
           ELSE <<"kape_", cafename_or(item, "unknown")>>,
           "naver_cafe", service_id_of_filter(svc),
           <<"cafe_", cafename_or(item, "unknown")>>, 5,
           Strip(clean_content(item)), Stamp(d, 0, <<"Z">>), item.link)

\* the review the loop of crawler.py builds
NoRangeReview(item, svc, d) ==
    Review(IF item.extracted_user_id # <<>> THEN item.extracted_user_id
           ELSE <<cafename_or(item, "Unknown")>>,
           "naver_cafe", service_id_of_crawler(svc),
           <<"cafe_", cafename_or(item, "unknown")>>, 5,
           Strip(clean_content(item)), Stamp(d, 0, <<"Z">>), item.link)

\* a loop that keeps an item without a date
KeepUndated(d) == FALSE

\* extracted_date is None: the item is left out
ExcludeUndated(d) == d = None

\* start_date <= extracted_date <= end_date
InRange(d, lo, hi) == d # None /\ DateLE(lo, d) /\ DateLE(d, hi)

MaxProcessed == 30

\* a loop that stops on the number of reviews only
FilterLimitCountOnly ==
    fMode = "range" /\ Len(filtered_results) >= fMax

\* the loop of filter_cafe_by_real_date_only stops
FilterLimit ==
    fMode = "range"
    /\ (Len(filtered_results) >= fMax \/ processed_count >= MaxProcessed)

\* the loop is over: return filtered_results
FilterReturn ==
    /\ pc = "f_loop"
    /\ fIdx > Len(fItems) \/ FilterLimit
    /\ pc' = "f_done"
    /\ UNCHANGED <<xVars, fVars, notF>>

\* crawler.py:300-314: a news item is passed over before it is dated
SkipNews ==
    /\ pc = "f_loop"
    /\ fMode = "norange"
    /\ fIdx <= Len(fItems)
    /\ IsNews(text_content(fItems[fIdx]))
    /\ fIdx' = fIdx + 1
    /\ fTier' = Append(fTier, "skipped")
    /\ UNCHANGED <<pc, xVars, fMode, fService, fStart, fEnd, fMax, fItems,
                   filtered_results, processed_count, excluded_count, fFrom,
                   likely, notF>>

\* the call extract_real_date_only(cafe)
CallExtract ==
    /\ pc = "f_loop"
    /\ fIdx <= Len(fItems)
    /\ ~FilterLimit
    /\ fMode = "norange" => ~IsNews(text_content(fItems[fIdx]))
    /\ processed_count' = IF fMode = "range" THEN processed_count + 1
                          ELSE processed_count
    /\ xItem' = fItems[fIdx]
    /\ xpc' = "x_start"
    /\ xIdx' = 0
    /\ xDate' = None
    /\ xTier' = ""
    /\ xHttp' = <<>>
    /\ xAnswered' = FALSE
    /\ pc' = "f_wait"
    /\ UNCHANGED <<today, fMode, fService, fStart, fEnd, fMax, fItems, fIdx,
                   filtered_results, excluded_count, fFrom, fTier, likely,
                   notF>>

\* cafe.get(...) of filter_cafe_by_real_date_only raises AttributeError for
\* an item that is a URL string; the except of the loop body goes on to
\* the next item
ItemRaises(mode, item) == mode = "range" /\ item.isStr

\* the item's review, or None when the loop leaves the item out
ReviewOf(mode, item, svc, d, lo, hi) ==
    IF ItemRaises(mode, item) THEN None
    ELSE IF ExcludeUndated(d) THEN None
    ELSE IF mode = "range"
         THEN IF InRange(d, lo, hi) /\ CafeAccepts(svc, text_content(item))
              THEN RangeReview(item, svc, d) ELSE None
         ELSE IF svc = Soho => SohoRelevant(Lower(clean_content(item)))
              THEN NoRangeReview(item, svc, d) ELSE None

\* the rest of the loop body, once extract_real_date_only has returned
TakeDate ==
    /\ pc = "f_wait"
    /\ xpc = "x_done"
    /\ LET r == ReviewOf(fMode, fItems[fIdx], fService, xDate, fStart, fEnd)
       IN /\ filtered_results' =
                IF r = None THEN filtered_results
                ELSE Append(filtered_results, r)
          /\ fFrom' = IF r = None THEN fFrom ELSE Append(fFrom, fIdx)
    /\ excluded_count' =
          IF fMode = "range" /\ xDate = None
             /\ ~ItemRaises(fMode, fItems[fIdx])
          THEN excluded_count + 1
          ELSE excluded_count
    /\ fTier' = Append(fTier, xTier)
    /\ fIdx' = fIdx + 1
    /\ pc' = "f_loop"
    /\ xpc' = "x_idle"
    /\ UNCHANGED <<today, xItem, xIdx, xDate, xTier, xHttp, xAnswered, fMode,
                   fService,
                   fStart, fEnd, fMax, fItems, processed_count, likely, notF>>

\* the key of services that names the service
ServiceKey(svc) ==
    IF svc \in DOMAIN service_mapping THEN service_mapping[svc] ELSE svc

\* is_likely_user_review on each item
LikelyUserReview ==
    /\ pc = "f_done"
    /\ likely' = [k \in 1..Len(fItems) |->
                    is_likely_user_review(fItems[k],
                                          service_keywords[ServiceKey(fService)])]
    /\ pc' = "f_checked"
    /\ UNCHANGED <<xVars, fMode, fService, fStart, fEnd, fMax, fItems, fIdx,
                   filtered_results, processed_count, excluded_count, fFrom,
                   fTier, notF>>

FIdle ==
    /\ fMode = ""
    /\ fService = ""
    /\ fStart = None
    /\ fEnd = None
    /\ fMax = 0
    /\ fItems = <<>>
    /\ fIdx = 0
    /\ filtered_results = <<>>
    /\ processed_count = 0
    /\ excluded_count = 0
    /\ fFrom = <<>>
    /\ fTier = <<>>
    /\ likely = <<>>

(***************************************************************************)
(* search_naver: four queries of one keyword, the items of their pages     *)
(* kept once per link                                                      *)
(***************************************************************************)
\* the first path segment of a link as a text, <<>> when it has none
FirstSegment(link) ==
    IF link.cafe # "" THEN <<link.cafe>>
    ELSE IF link.post >= 0 THEN DigitsOf(link.post, 1)
    ELSE <<>>

\* re.search(r'HOST/([^/?]+)', link): group 1, <<>> when there is no match
SegmentAfter(host, link) ==
    IF link.host = host THEN FirstSegment(link) ELSE <<>>

\* the user id as a text, <<>> for None
extract_user_id_from_url(bloggerlink, link, type) ==
    IF type = "blog"
    THEN IF SegmentAfter("blog.naver.com", bloggerlink) # <<>>
         THEN SegmentAfter("blog.naver.com", bloggerlink)
         ELSE SegmentAfter("blog.naver.com", link)
    ELSE IF type = "cafe" /\ SegmentAfter("cafe.naver.com", link) # <<>>
         THEN <<"kape_">> \o SegmentAfter("cafe.naver.com", link)
         ELSE <<>>

\* the four queries of a keyword
queries == <<"exact", "plain", "app", "review">>

SearchTypes == {"blog", "cafe"}

\* a search that remembers the links of the search before it
KeepSeenLinks(prev) == prev

\* seen_links = set(): every call starts without a link seen
FreshSeenLinks(prev) == {}

\* what Naver has to answer a query with: two posts of one link that
\* differ in their titles, a post of another link, and two posts without a
\* link that differ in their titles
PostA == Item(FALSE, <<"hu", "gi">>, <<>>, Link(TRUE, "cafe.naver.com", "testcafe", 1))
PostA2 == Item(FALSE, <<"teuk", "bo">>, <<>>, Link(TRUE, "cafe.naver.com", "testcafe", 1))
PostB == Item(FALSE, <<"hu", "gi">>, <<>>, Link(TRUE, "blog.naver.com", "user1", 2))
PostE1 == Item(FALSE, <<"hu", "gi">>, <<>>, EmptyLink)
PostE2 == Item(FALSE, <<"teuk", "bo">>, <<>>, EmptyLink)

NaverPages ==
    { <<>>, <<PostA>>, <<PostB>>, <<PostA2, PostB>>, <<PostE1>>,
      <<PostE2, PostA>> }

\* the items of a page taken up one by one: the loop of lines 106-116
RECURSIVE TakeItems(_, _, _, _, _)
TakeItems(items, kept, seen, type, n) ==
    IF items = <<>> THEN [kept |-> kept, seen |-> seen]
    ELSE LET item == Head(items)
         IN IF item.link \notin seen
            THEN LET k == Append(kept,
                            [item EXCEPT !.extracted_user_id =
                                extract_user_id_from_url(item.bloggerlink,
                                                         item.link, type)])
                 IN IF Len(k) >= n
                    THEN [kept |-> k, seen |-> seen \cup {item.link}]
                    ELSE TakeItems(Tail(items), k, seen \cup {item.link},
                                   type, n)
            ELSE TakeItems(Tail(items), kept, seen, type, n)

\* Python's xs[:n]
Slice(xs, n) ==
    IF n >= 0 THEN SubSeq(xs, 1, Min(n, Len(xs)))
    ELSE SubSeq(xs, 1, Len(xs) + n)

\* search_type is neither 'blog' nor 'cafe': ValueError
SearchRaise ==
    /\ pc = "s_query"
    /\ search_type \notin SearchTypes
    /\ pc' = "s_raised"
    /\ UNCHANGED <<sVars, notS>>

\* one query: the GET, the items of its page, and the break that follows
SearchGet ==
    /\ pc = "s_query"
    /\ search_type \in SearchTypes
    /\ sQuery <= Len(queries)
    /\ \E r \in {[kind |-> "exc", items |-> <<>>],
                 [kind |-> "status", items |-> <<>>]}
                \cup {[kind |-> "ok", items |-> pg] :
                        pg \in IF sCall = 1 THEN NaverPages ELSE {sFeed}} :
          LET t == TakeItems(r.items, all_results, seen_links, search_type,
                             display)
          IN /\ all_results' = t.kept
             /\ seen_links' = t.seen
             /\ sGot' = sGot \o r.items
             /\ sQuery' = IF r.kind # "exc" /\ Len(t.kept) >= display
                          THEN Len(queries) + 1 ELSE sQuery + 1
    /\ UNCHANGED <<pc, search_type, display, sCall, sFeed, sOut, notS>>

\* return all_results[:display]
SearchReturn ==
    /\ pc = "s_query"
    /\ search_type \in SearchTypes
    /\ sQuery > Len(queries)
    /\ sOut' = Slice(all_results, display)
    /\ pc' = "s_done"
    /\ UNCHANGED <<search_type, display, sQuery, all_results, seen_links, sGot,
                   sCall, sFeed, notS>>

\* the call that follows: the same arguments, Naver answering with the
\* list the first call returned
SearchAgain ==
    /\ pc = "s_done"
    /\ sCall = 1
    /\ sCall' = 2
    /\ sFeed' = sOut
    /\ all_results' = <<>>
    /\ seen_links' = FreshSeenLinks(seen_links)
    /\ sQuery' = 1
    /\ sGot' = <<>>
    /\ sOut' = <<>>
    /\ pc' = "s_query"
    /\ UNCHANGED <<search_type, display, notS>>

SIdle ==
    /\ search_type = ""
    /\ display = 0
    /\ sQuery = 0
    /\ all_results = <<>>
    /\ seen_links = {}
    /\ sGot = <<>>
    /\ sCall = 0
    /\ sFeed = <<>>
    /\ sOut = <<>>

(***************************************************************************)
(* crawl_service_by_selection and the two store crawlers it calls          *)
(***************************************************************************)
DaySeconds == 86400

HourSeconds == 3600

PstOffsetHours == 7

\* dt + timedelta(hours=n) on a naive date and time of day
AddHours(ymd, sec, n) ==
    LET t == sec + n * HourSeconds
    IN [ymd |-> AddDays(ymd, t \div DaySeconds), sec |-> t % DaySeconds]

\* a <= b on naive datetimes
StampLE(a, b) ==
    \/ a.ymd # b.ymd /\ DateLE(a.ymd, b.ymd)
    \/ a.ymd = b.ymd /\ a.sec <= b.sec

\* `if start_date and end_date`
HasRange(lo, hi) == lo # None /\ hi # None

\* what the Google Play library hands back for one review
GReview(userName, score, content, at) ==
    [userName |-> userName, score |-> score, content |-> content, at |-> at]

\* store_api.crawl_google_play on what the library returns: the reviews
\* whose date lies in the range, 'at' in ISO form; [] on an exception
RECURSIVE GoogleKept(_, _, _)
GoogleKept(rs, lo, hi) ==
    IF rs = <<>> THEN <<>>
    ELSE LET r == Head(rs)
         IN IF HasRange(lo, hi)
               /\ ~(DateLE(lo.ymd, r.at.ymd) /\ DateLE(r.at.ymd, hi.ymd))
            THEN GoogleKept(Tail(rs), lo, hi)
            ELSE <<r>> \o GoogleKept(Tail(rs), lo, hi)

crawl_google_play(feed, lo, hi) ==
    IF feed.kind = "exc" THEN <<>> ELSE GoogleKept(feed.reviews, lo, hi)

\* an entry of the App Store feed
AEntry(author, title, content, rating, updated) ==
    [author |-> author, title |-> title, content |-> content,
     rating |-> rating, updated |-> updated]

\* store_api.crawl_apple_store (the second definition, which is the one
\* bound): the first entry is skipped, the rest cut at count and kept when
\* the wall-clock time of 'updated' lies between the wall-clock times of the
\* range
RECURSIVE AppleKept(_, _, _)
AppleKept(es, lo, hi) ==
    IF es = <<>> THEN <<>>
    ELSE LET e == Head(es)
         IN IF HasRange(lo, hi)
               /\ ~(StampLE(lo, e.updated) /\ StampLE(e.updated, hi))
            THEN AppleKept(Tail(es), lo, hi)
            ELSE <<[userName |-> e.author, score |-> e.rating,
                    content |-> e.content, at |-> e.updated,
                    title |-> e.title]>>
                 \o AppleKept(Tail(es), lo, hi)

\* a crawler that reads the feed whatever the status of the response
crawl_apple_store_any_status(feed, count, lo, hi) ==
    IF feed.kind = "exc" \/ feed.entries = <<>> THEN <<>>
    ELSE AppleKept(Slice(Tail(feed.entries), count), lo, hi)

crawl_apple_store(feed, count, lo, hi) ==
    IF feed.kind # "ok" \/ feed.entries = <<>> THEN <<>>
    ELSE AppleKept(Slice(Tail(feed.entries), count), lo, hi)

\* the link of a store review: None
NoneLink == Link(FALSE, "None", "", -1)

\* crawler.py:67-76: the createdAt of a Google Play review
GoogleCreatedAt(at) ==
    IF at.zone = <<>> THEN Stamp(at.ymd, at.sec, <<"Z">>)
    ELSE IF at.zone = <<"-07:00">>
         THEN LET u == AddHours(at.ymd, at.sec, PstOffsetHours)
              IN Stamp(u.ymd, u.sec, <<"-07:00", "Z">>)
         ELSE at

\* the zone markers that hold a "+"
PlusZones == {"+09:00", "+00:00"}

\* crawler.py:110-123: the createdAt of an App Store review
AppleCreatedAt(at) ==
    IF at.zone = <<"-07:00">>
    THEN LET u == AddHours(at.ymd, at.sec, PstOffsetHours)
         IN Stamp(u.ymd, u.sec, <<"Z">>)
    ELSE IF at.zone = <<"Z">> \/ (at.zone # <<>> /\ at.zone[1] \in PlusZones)
         THEN at
         ELSE Stamp(at.ymd, at.sec, at.zone \o <<"Z">>)

\* a loop that builds its list from the last review to the first
google_results_reversed(rs, svc) ==
    [i \in 1..Len(rs) |->
        Review(rs[Len(rs) + 1 - i].userName, "google_play",
               service_id_of_crawler(svc), DigitsOf(i - 1, 1),
               rs[Len(rs) + 1 - i].score, rs[Len(rs) + 1 - i].content,
               GoogleCreatedAt(rs[Len(rs) + 1 - i].at), NoneLink)]

\* crawler.py:64-91: the standardised reviews of Google Play
google_results(rs, svc) ==
    [i \in 1..Len(rs) |->
        Review(rs[i].userName, "google_play", service_id_of_crawler(svc),
               DigitsOf(i - 1, 1), rs[i].score, rs[i].content,
               GoogleCreatedAt(rs[i].at), NoneLink)]

\* crawler.py:106-138: the standardised reviews of the App Store
apple_results(rs, svc) ==
    [i \in 1..Len(rs) |->
        Review(rs[i].userName, "app_store", service_id_of_crawler(svc),
               DigitsOf(i - 1, 1), rs[i].score, rs[i].content,
               AppleCreatedAt(rs[i].at), NoneLink)]

\* the keyword arguments search_naver declares (naver_api.py:59) and those
\* crawl_service_by_selection passes with the keyword (crawler.py:151, 262)
search_naver_params == {"keyword", "search_type", "display"}

search_naver_kwargs == {"search_type", "display", "start_date", "end_date"}

\* a search_naver that takes whatever it is passed
CallBindsAny(kwargs, params) == TRUE

\* the call binds its arguments; a TypeError is raised otherwise
CallBinds(kwargs, params) == kwargs \subseteq params

\* search_naver on the pages the four queries are answered with
RECURSIVE SearchFold(_, _, _, _, _, _)
SearchFold(pages, q, kept, seen, type, n) ==
    IF q > Len(queries) THEN kept
    ELSE LET t == TakeItems(pages[q], kept, seen, type, n)
         IN IF Len(t.kept) >= n THEN t.kept
            ELSE SearchFold(pages, q + 1, t.kept, t.seen, type, n)

search_naver(pages, type, n) ==
    Slice(SearchFold(pages, 1, <<>>, {}, type, n), n)

\* datetime.strptime(text, "%Y%m%d"): four digits of year, one or two of
\* month, one or two of day, the longer reading tried first; None when the
\* text does not match or names no day of the calendar
StrptimeSplit(text, mlen, dlen) ==
    IF /\ Len(text) = 4 + mlen + dlen
       /\ \A i \in 1..Len(text) : text[i] \in Digits
       /\ (mlen = 1 => text[5] # "0")
       /\ (dlen = 1 => text[5 + mlen] # "0")
    THEN LET y == IntAt(text, 1, 4)
             m == IntAt(text, 5, mlen)
             d == IntAt(text, 5 + mlen, dlen)
         IN IF ValidYMD(y, m, d) THEN <<y, m, d>> ELSE None
    ELSE None

strptime_Ymd(text) ==
    IF StrptimeSplit(text, 2, 2) # None THEN StrptimeSplit(text, 2, 2)
    ELSE IF StrptimeSplit(text, 2, 1) # None THEN StrptimeSplit(text, 2, 1)
    ELSE IF StrptimeSplit(text, 1, 2) # None THEN StrptimeSplit(text, 1, 2)
    ELSE StrptimeSplit(text, 1, 1)

\* blog.get("postdate", "20250101")
DefaultPostdate == <<"2", "0", "2", "5", "0", "1", "0", "1">>

post_date(blog) ==
    IF blog.postdate = <<"missing">> THEN DefaultPostdate ELSE blog.postdate

\* crawler.py:159-179: the date of a blog item, None when the item is skipped
BlogDate(blog, lo, hi) ==
    LET parsed == strptime_Ymd(post_date(blog))
    IN IF parsed = None
       THEN IF HasRange(lo, hi) THEN None ELSE <<2025, 1, 1>>
       ELSE IF HasRange(lo, hi)
               /\ ~(DateLE(lo.ymd, parsed) /\ DateLE(parsed, hi.ymd))
            THEN None
            ELSE parsed

\* crawler.py:181-236: the review of a blog item
BlogReview(blog, svc, d) ==
    Review(IF extract_user_id_from_url(blog.bloggerlink, blog.link, "blog") # <<>>
           THEN extract_user_id_from_url(blog.bloggerlink, blog.link, "blog")
           ELSE <<IF blog.bloggername = "" THEN "Unknown" ELSE blog.bloggername>>,
           "naver_blog", service_id_of_crawler(svc),
           <<"blog_">> \o (IF blog.postdate = <<"missing">> THEN <<"unknown">>
                           ELSE blog.postdate), 5,
           clean_html(blog.title) \o <<" ">> \o clean_html(blog.description),
           Stamp(d, 0, <<"Z">>), blog.link)

\* the loop over the items of one search
RECURSIVE BlogLoop(_, _, _, _)
BlogLoop(blogs, svc, lo, hi) ==
    IF blogs = <<>> THEN <<>>
    ELSE LET blog == Head(blogs)
             d == BlogDate(blog, lo, hi)
             rest == BlogLoop(Tail(blogs), svc, lo, hi)
         IN IF d = None THEN rest
            ELSE IF svc = Soho
                    /\ ~SohoRelevant(Lower(clean_html(blog.title) \o <<" ">>
                                           \o clean_html(blog.description)))
                 THEN rest
                 ELSE <<BlogReview(blog, svc, d)>> \o rest

\* service_keywords[:3]
NumKeywords == 3

\* crawler.py:148-240: the searches of the first keywords, one after the
\* other; a search that raises adds nothing
RECURSIVE BlogKeywords(_, _, _, _, _, _)
BlogKeywords(index, k, svc, lo, hi, n) ==
    IF k > NumKeywords THEN <<>>
    ELSE (IF CallBinds(search_naver_kwargs, search_naver_params)
          THEN BlogLoop(search_naver(index[k], "blog", n), svc, lo, hi)
          ELSE <<>>)
         \o BlogKeywords(index, k + 1, svc, lo, hi, n)

\* a content the store hands back as None (a rating without a text, an
\* empty <content/> element)
NoneText == <<"None">>

\* Google Play reviews of the last evening of June and of the first night
\* of July, as the library dates them, and one without a text
GPostJune == GReview("user1", 5, <<"hu", "gi">>, Stamp(<<2025, 6, 30>>, 72000, <<>>))
GPostJuly == GReview("user2", 1, <<"hu", "gi">>, Stamp(<<2025, 7, 1>>, 10800, <<>>))
GPostBare == GReview("user6", 4, NoneText, Stamp(<<2025, 6, 20>>, 0, <<>>))

\* a Google Play review whose text is the empty string
GPostEmpty == GReview("user9", 3, <<>>, Stamp(<<2025, 6, 21>>, 0, <<>>))

GooglePages ==
    {<<>>, <<GPostJune>>, <<GPostJuly>>, <<GPostJuly, GPostJune>>,
     <<GPostJune, GPostBare>>, <<GPostJune, GPostEmpty>>}

\* the entry that heads the App Store feed, and reviews of mid June, of
\* the last evening of June and of the first hour of July, Pacific time,
\* one without a text and one with a rating of 0
AHead == AEntry("", <<>>, <<>>, 0, Stamp(<<2025, 7, 2>>, 0, <<"-07:00">>))
APostMid == AEntry("user3", <<"hu", "gi">>, <<"hu", "gi">>, 4, Stamp(<<2025, 6, 15>>, 36000, <<"-07:00">>))
APostEve == AEntry("user4", <<"hu", "gi">>, <<"hu", "gi">>, 2, Stamp(<<2025, 6, 30>>, 72000, <<"-07:00">>))
APostJuly == AEntry("user5", <<"hu", "gi">>, <<"hu", "gi">>, 3, Stamp(<<2025, 7, 1>>, 0, <<"-07:00">>))
APostBare == AEntry("user7", <<"hu", "gi">>, NoneText, 5, Stamp(<<2025, 6, 16>>, 0, <<"-07:00">>))
APostZero == AEntry("user8", <<"hu", "gi">>, <<"hu", "gi">>, 0, Stamp(<<2025, 6, 17>>, 0, <<"-07:00">>))

\* App Store reviews of mid June whose 'updated' carries the offset of
\* Seoul, the marker Z, and no zone at all
APostSeoul == AEntry("user10", <<"hu", "gi">>, <<"hu", "gi">>, 4, Stamp(<<2025, 6, 18>>, 32400, <<"+09:00">>))
APostZulu == AEntry("user11", <<"hu", "gi">>, <<"hu", "gi">>, 4, Stamp(<<2025, 6, 18>>, 0, <<"Z">>))
APostNaive == AEntry("user12", <<"hu", "gi">>, <<"hu", "gi">>, 4, Stamp(<<2025, 6, 18>>, 0, <<>>))

ApplePages ==
    {<<>>, <<AHead>>, <<AHead, APostMid>>, <<AHead, APostEve>>,
     <<AHead, APostMid, APostJuly>>, <<AHead, APostBare, APostMid>>,
     <<AHead, APostZero>>, <<AHead, APostSeoul>>,
     <<AHead, APostZulu, APostNaive>>}

Channels == {"googlePlay", "appleStore", "naverBlog", "naverCafe"}

cArgs == <<service_name, selected_channels, start_date, end_date,
           review_count, naver>>

\* a check that lets every name through
InServicesAny(name) == TRUE

\* crawler.py:41: service_name in services
InServices(name) == name \in ServiceKeys

\* service_name is no key of services: ValueError; else the first channel
CrawlStart ==
    /\ pc = "c_start"
    /\ pc' = IF InServices(service_name) THEN "c_google" ELSE "c_raised"
    /\ UNCHANGED <<cVars, notC>>

\* what the Google Play library can hand back
GoogleFeeds ==
    {[kind |-> "exc", reviews |-> <<>>]}
    \cup {[kind |-> "ok", reviews |-> rs] : rs \in GooglePages}

\* the call of an adapter and what it was answered
Fetch(adapter, answer) == [adapter |-> adapter, answer |-> answer]

\* crawler.py:91, 138: review['content'][:50] of the loops' print raises
\* TypeError for a content that is None, and nothing catches it
LoopRaises(rs) == \E i \in 1..Len(rs) : rs[i].content = NoneText

\* crawler.py:52-93
CrawlGoogle ==
    /\ pc = "c_google"
    /\ IF "googlePlay" \in selected_channels
       THEN \E feed \in GoogleFeeds :
               /\ fetched' = Append(fetched, Fetch("crawl_google_play", feed))
               /\ \E rs \in {crawl_google_play(feed, start_date, end_date)} :
                     IF LoopRaises(rs)
                     THEN /\ pc' = "c_type_error"
                          /\ UNCHANGED result
                     ELSE /\ pc' = "c_apple"
                          /\ result' = result @@
                                ("google_play" :> google_results(rs, service_name))
       ELSE /\ pc' = "c_apple"
            /\ UNCHANGED <<result, fetched>>
    /\ UNCHANGED <<cArgs, notC>>

\* what the App Store feed can answer: an exception of requests, a status
\* other than 200 (with a body that is not read), or a feed
AppleFeeds ==
    {[kind |-> "exc", entries |-> <<>>], [kind |-> "status", entries |-> <<>>],
     [kind |-> "status", entries |-> <<AHead, APostMid>>]}
    \cup {[kind |-> "ok", entries |-> es] : es \in ApplePages}

AppleCount == 100

\* crawler.py:95-140
CrawlApple ==
    /\ pc = "c_apple"
    /\ IF "appleStore" \in selected_channels
       THEN \E feed \in AppleFeeds :
               /\ fetched' = Append(fetched, Fetch("crawl_apple_store", feed))
               /\ \E rs \in {crawl_apple_store(feed, AppleCount, start_date,
                                               end_date)} :
                     IF LoopRaises(rs)
                     THEN /\ pc' = "c_type_error"
                          /\ UNCHANGED result
                     ELSE /\ pc' = "c_blog"
                          /\ result' = result @@
                                ("apple_store" :> apple_results(rs, service_name))
       ELSE /\ pc' = "c_blog"
            /\ UNCHANGED <<result, fetched>>
    /\ UNCHANGED <<cArgs, notC>>

\* crawler.py:142-251
CrawlBlog ==
    /\ pc = "c_blog"
    /\ IF "naverBlog" \in selected_channels
       THEN result' = result @@
               ("naver_blog" :>
                  BlogKeywords(naver.blog, 1, service_name, start_date,
                               end_date, review_count \div 3))
       ELSE UNCHANGED result
    /\ pc' = "c_cafe"
    /\ UNCHANGED <<cArgs, fetched, notC>>

\* crawler.py:253-390: every search of the first keywords raises, and the
\* channel's list stays empty; were a search to return, its items would go
\* through the cafe loops
CrawlCafe ==
    /\ pc = "c_cafe"
    /\ IF "naverCafe" \in selected_channels
       THEN IF CallBinds(search_naver_kwargs, search_naver_params)
            THEN /\ pc' = "c_cafe_loop"
                 /\ UNCHANGED result
            ELSE /\ result' = result @@ ("naver_cafe" :> <<>>)
                 /\ pc' = "c_done"
       ELSE /\ UNCHANGED result
            /\ pc' = "c_done"
    /\ UNCHANGED <<cArgs, fetched, notC>>

CIdle ==
    /\ service_name = ""
    /\ selected_channels = {}
    /\ start_date = None
    /\ end_date = None
    /\ review_count = 0
    /\ naver = <<>>
    /\ result = <<>>
    /\ fetched = <<>>

BIdle ==
    /\ naver_blogs = <<>>
    /\ bIdx = 0
    /\ blog_results = <<>>
    /\ bFrom = <<>>

(***************************************************************************)
(* Specification SpecDate: extract_real_date_only on one item              *)
(***************************************************************************)
\* a date as a text, in each of the five written forms
DateText(fmt, ymd) ==
    CASE fmt = "kor4" ->
            DigitsOf(ymd[1], 4) \o <<"nyeon", " ">> \o DigitsOf(ymd[2], 1)
            \o <<"wol", " ">> \o DigitsOf(ymd[3], 1) \o <<"il">>
      [] fmt = "kor2" ->
            DigitsOf(ymd[1] % 100, 2) \o <<"nyeon", " ">> \o DigitsOf(ymd[2], 1)
            \o <<"wol", " ">> \o DigitsOf(ymd[3], 1) \o <<"il">>
      [] fmt = "dash" ->
            DigitsOf(ymd[1], 4) \o <<"-">> \o DigitsOf(ymd[2], 2) \o <<"-">>
            \o DigitsOf(ymd[3], 2)
      [] fmt = "dot" ->
            DigitsOf(ymd[1], 4) \o <<".">> \o DigitsOf(ymd[2], 2) \o <<".">>
            \o DigitsOf(ymd[3], 2)
      [] fmt = "slash" ->
            DigitsOf(ymd[1], 4) \o <<"/">> \o DigitsOf(ymd[2], 2) \o <<"/">>
            \o DigitsOf(ymd[3], 2)

DateFormats == {"kor4", "kor2", "dash", "dot", "slash"}

WrittenDates ==
    {<<2025, 7, 22>>, <<2025, 12, 31>>, <<2019, 5, 5>>, <<2025, 2, 30>>,
     <<2026, 1, 5>>, <<1925, 7, 22>>}

\* a title: a word, or one written date followed by a word
DateTexts ==
    {<<"hu", "gi">>}
    \cup {DateText(f, d) \o <<" ", "hu", "gi">> :
            f \in DateFormats, d \in {<<2025, 7, 22>>, <<2025, 12, 31>>}}
    \cup {DateText(f, d) \o <<" ", "hu", "gi">> :
            f \in {"kor4", "dash"}, d \in WrittenDates}

\* a description: a word, or one of two written dates followed by a word
DescTexts ==
    {<<"hu", "gi">>,
     DateText("dash", <<2025, 7, 22>>) \o <<" ", "hu", "gi">>,
     DateText("kor4", <<2025, 12, 31>>) \o <<" ", "hu", "gi">>}

DateLinks ==
    {EmptyLink,
     Link(FALSE, "cafe.naver.com", "", -1),
     Link(TRUE, "blog.naver.com", "", 55),
     Link(TRUE, "cafe.naver.com", "testcafe", 123456),
     Link(TRUE, "cafe.naver.com", "rainup", 3300100),
     Link(TRUE, "cafe.naver.com", "appleiphone", 9000000),
     Link(TRUE, "cafe.naver.com", "appleiphone", 8812000),
     Link(TRUE, "cafe.naver.com", "appleiphone", 8812831)}

Todays == {<<2025, 7, 3>>, <<2025, 7, 23>>, <<2026, 11, 4>>}

DateItems ==
    {Item(FALSE, t, d, l) : t \in DateTexts, d \in DescTexts, l \in DateLinks}
    \cup {Item(TRUE, <<>>, <<>>, l) : l \in DateLinks}

DateInit ==
    /\ pc = "date"
    /\ today \in Todays
    /\ xItem \in DateItems
    /\ xpc = "x_start"
    /\ xIdx = 0
    /\ xDate = None
    /\ xTier = ""
    /\ xHttp = <<>>
    /\ xAnswered = FALSE
    /\ StripIdle
    /\ FIdle
    /\ SIdle
    /\ CIdle
    /\ BIdle

DateNext ==
    \/ ExplicitText
    \/ PageScrapeGet
    \/ HeadLastModified
    \/ EnhancedScrapeGet
    \/ IdHeuristic

SpecDate == DateInit /\ [][DateNext]_vars

\* p stands in s at position i as a whole number group: no digit before
\* it and none after it
WholeAt(s, i, p) ==
    /\ OccursAt(s, i, p)
    /\ i = 1 \/ s[i - 1] \notin Digits
    /\ i + Len(p) > Len(s) \/ s[i + Len(p)] \notin Digits

\* the positions at which the text states the date d in a supported form
WrittenAt(text, d) ==
    {i \in 1..Len(text) : \E f \in DateFormats : WholeAt(text, i, DateText(f, d))}

InWindow(d, day) == DateLE(WindowStart, d) /\ DateLE(d, day)

\* C1: extract_real_date_only never returns a date outside
\* [2020-01-01, today], whichever step returned it
C1_DateInWindow ==
    (xpc = "x_done" /\ xDate # None) => InWindow(xDate, today)

\* the dates of the window that the item's text states
ValidWritten(item, day) ==
    {d \in WrittenDates :
        /\ ValidYMD(d[1], d[2], d[3])
        /\ InWindow(d, day)
        /\ WrittenAt(combined_text(item), d) # {}}

\* d is stated no later in the text than any other date of the window
IsFirstWritten(item, day, d) ==
    /\ d \in ValidWritten(item, day)
    /\ \A e \in ValidWritten(item, day) :
          \E i \in WrittenAt(combined_text(item), d) :
             \A j \in WrittenAt(combined_text(item), e) : i <= j

\* C2: when title + description states a date of [2020-01-01, today] in a
\* supported form, extract_real_date_only returns the first such date and
\* issues no HTTP request
C2_ExplicitTextFirst ==
    (xpc = "x_done" /\ ValidWritten(xItem, today) # {})
        => xHttp = <<>> /\ IsFirstWritten(xItem, today, xDate)

(***************************************************************************)
(* Specification SpecStrip: the two cleaners applied once and twice        *)
(***************************************************************************)
MaxStripPieces == 4

StripPieces ==
    { <<"<">>, <<">">>, <<"b">>, <<" ">>, <<"&">>,
      <<"l", "t", ";">>, <<"g", "t", ";">>, <<"a", "m", "p", ";">>,
      <<"n", "b", "s", "p", ";">> }

StripInputs == {Flatten(ps) : ps \in SeqsUpTo(StripPieces, MaxStripPieces)}

StripInit ==
    /\ pc = "strip_start"
    /\ stripIn \in StripInputs
    /\ stripOut1 = <<>>
    /\ stripOut2 = <<>>
    /\ cleanOut1 = <<>>
    /\ cleanOut2 = <<>>
    /\ XIdle
    /\ FIdle
    /\ SIdle
    /\ CIdle
    /\ BIdle

StripOnce ==
    /\ pc = "strip_start"
    /\ stripOut1' = strip_html(stripIn)
    /\ cleanOut1' = clean_html(stripIn)
    /\ pc' = "strip_once"
    /\ UNCHANGED <<stripIn, stripOut2, cleanOut2, notStrip>>

StripTwice ==
    /\ pc = "strip_once"
    /\ stripOut2' = strip_html(stripOut1)
    /\ cleanOut2' = clean_html(cleanOut1)
    /\ pc' = "strip_twice"
    /\ UNCHANGED <<stripIn, stripOut1, cleanOut1, notStrip>>

StripNext == StripOnce \/ StripTwice

SpecStrip == StripInit /\ [][StripNext]_vars

\* C9: strip_html(strip_html(x)) = strip_html(x) and
\* clean_html(clean_html(x)) = clean_html(x) for every text x
C9_StripIdempotent ==
    pc = "strip_twice" => stripOut2 = stripOut1 /\ cleanOut2 = cleanOut1


(***************************************************************************)
(* Specification SpecCafe: one cafe loop over a list of items, then        *)
(* is_likely_user_review on each item                                      *)
(***************************************************************************)
MaxItems == 2

Filler == [i \in 1..12 |-> "x"]

Uurigage == <<"uu", "ri", "ga", "ge">>

CafeLink == Link(TRUE, "cafe.naver.com", "testcafe", 123456)

\* a dated review of the product, the same with a news term, an undated
\* note in a cafe without calibration, and a dated news item that does not
\* name the product
CafeItems ==
    { Item(FALSE, DateText("dash", <<2025, 7, 22>>) \o <<" ">> \o Uurigage
                  \o <<" ", "L", "G", " ", "hu", "gi">>, Filler, CafeLink),
      Item(FALSE, DateText("dash", <<2025, 7, 22>>) \o <<" ">> \o Uurigage
                  \o <<" ", "L", "G", " ", "teuk", "bo", " ", "hu", "gi">>,
           Filler, CafeLink),
      Item(FALSE, <<"hu", "gi">>, Filler, CafeLink),
      Item(FALSE, DateText("dash", <<2025, 7, 22>>) \o <<" ", "N", "E", "W", "S">>,
           <<>>, CafeLink) }

\* the loop of crawler.py runs for a key of services only (crawler.py:41);
\* max_results is min(10, review_count // 3)
CafeConfigs ==
    {<<"range", Soho, 10>>, <<"range", Ixio, 10>>,
     <<"norange", "soho-package", 0>>}

\* a cafe post that states no date and has no link
CafeUndated == Item(FALSE, <<"hu", "gi">>, <<>>, EmptyLink)

\* a dated review, a URL string in place of an item, and a list one longer
\* than the loop takes up, of notes without date or link
CafeDated ==
    Item(FALSE, DateText("dash", <<2025, 7, 22>>) \o <<" ">> \o Uurigage
                \o <<" ", "L", "G", " ", "hu", "gi">>, Filler, CafeLink)

CafeUrlString == Item(TRUE, <<>>, <<>>, CafeLink)

LongList == [i \in 1..(MaxProcessed + 1) |-> CafeUndated]

\* calls of filter_cafe_by_real_date_only beside those of CafeConfigs: the
\* long list, a list with the URL string, and max_results of 1, 0 and -1
CafeCalls ==
    (CafeConfigs \X SeqsUpTo(CafeItems, MaxItems))
    \cup {<< <<"range", Ixio, 10>>, LongList >>,
          << <<"range", Ixio, 10>>, <<CafeUrlString, CafeDated>> >>,
          << <<"range", Ixio, 1>>, <<CafeDated, CafeDated>> >>,
          << <<"range", Ixio, 0>>, <<CafeDated>> >>,
          << <<"range", Ixio, -1>>, <<CafeDated>> >>}

CafeInit ==
    /\ pc = "f_loop"
    /\ \E call \in CafeCalls :
          /\ fMode = call[1][1]
          /\ fService = call[1][2]
          /\ fStart = IF call[1][1] = "range" THEN <<2025, 7, 1>> ELSE None
          /\ fEnd = IF call[1][1] = "range" THEN <<2025, 7, 31>> ELSE None
          /\ fMax = call[1][3]
          /\ fItems = call[2]
    /\ fIdx = 1
    /\ filtered_results = <<>>
    /\ processed_count = 0
    /\ excluded_count = 0
    /\ fFrom = <<>>
    /\ fTier = <<>>
    /\ likely = <<>>
    /\ today = <<2025, 7, 23>>
    /\ xItem = NoItem
    /\ xpc = "x_idle"
    /\ xIdx = 0
    /\ xDate = None
    /\ xTier = ""
    /\ xHttp = <<>>
    /\ xAnswered = FALSE
    /\ StripIdle
    /\ SIdle
    /\ CIdle
    /\ BIdle

CafeNext ==
    \/ FilterReturn
    \/ SkipNews
    \/ CallExtract
    \/ ExplicitText
    \/ PageScrapeGet
    \/ HeadLastModified
    \/ EnhancedScrapeGet
    \/ IdHeuristic
    \/ TakeDate
    \/ LikelyUserReview

SpecCafe == CafeInit /\ [][CafeNext]_vars

\* the number of reviews built of item k
ReviewsOf(k) == Cardinality({j \in 1..Len(fFrom) : fFrom[j] = k})

\* item k went through every step of extract_real_date_only and its cafe
\* has no calibration: IdHeuristic is the only step left to it, and it
\* has no entry
IdOnlyUncalibrated(k) ==
    /\ k <= Len(fTier)
    /\ fTier[k] = "None"
    /\ post_id_match(fItems[k].link)
    /\ cafe_name_match(fItems[k].link)
    /\ fItems[k].link.cafe \notin DOMAIN cafe_patterns

NewsItem(k) == IsNews(text_content(fItems[k]))

\* the text of item k that is_likely_user_review tests holds a news term
NewsItemStripped(k) ==
    \E text \in {Lower(strip_html(fItems[k].title)) \o <<" ">>
                  \o Lower(strip_html(fItems[k].description))} :
       \E t \in exclusion_keywords : Contains(text, t)

\* C10: an item whose text holds a news term is in no cafe loop's output
\* and is not accepted by is_likely_user_review, whatever the service and
\* whether or not the text names the product
C10_NewsRejected ==
    /\ pc \in {"f_done", "f_checked"}
          => \A k \in 1..Len(fItems) : NewsItem(k) => ReviewsOf(k) = 0
    /\ pc = "f_checked"
          => \A k \in 1..Len(fItems) : NewsItemStripped(k) => ~likely[k]

C10_Witness ==
    /\ pc = "f_checked"
    /\ fService = Soho
    /\ \E k \in 1..Len(fItems) :
          /\ NewsItem(k)
          /\ NewsItemStripped(k)
          /\ SohoRelevant(text_content(fItems[k]))
          /\ fTier[k] = "ExplicitText"
          /\ InRange(ExplicitTextDate(combined_text(fItems[k])), fStart, fEnd)
          /\ ReviewsOf(k) = 0
          /\ ~likely[k]
    /\ \E k \in 1..Len(fItems) : ReviewsOf(k) = 1 /\ likely[k]

(***************************************************************************)
(* Specification SpecSearch: search_naver called once on what Naver        *)
(* answers, and once more on the list the first call returned              *)
(***************************************************************************)
Displays == {0, 1, 2, 4}

SearchInit ==
    /\ pc = "s_query"
    /\ search_type \in SearchTypes \cup {"shop"}
    /\ display \in Displays
    /\ sQuery = 1
    /\ all_results = <<>>
    /\ seen_links = {}
    /\ sGot = <<>>
    /\ sCall = 1
    /\ sFeed = <<>>
    /\ sOut = <<>>
    /\ StripIdle
    /\ XIdle
    /\ FIdle
    /\ CIdle
    /\ BIdle

SearchNext ==
    \/ SearchRaise
    \/ SearchGet
    \/ SearchReturn
    \/ SearchAgain

SpecSearch == SearchInit /\ [][SearchNext]_vars

\* an item as Naver sent it
Raw(item) == [item EXCEPT !.extracted_user_id = <<>>]

\* the content of an item, normalised
NormContent(item) ==
    strip_html(item.title) \o <<" ">> \o strip_html(item.description)

\* the identity key: the link when there is one, else the content
SameKey(a, b) ==
    IF a.link # EmptyLink \/ b.link # EmptyLink THEN a.link = b.link
    ELSE NormContent(a) = NormContent(b)

\* the positions of xs that no earlier position duplicates
FirstPositions(xs, Dup(_, _)) ==
    {j \in 1..Len(xs) : \A i \in 1..(j - 1) : ~Dup(xs[i], xs[j])}

\* the elements of xs at the positions P, in the order of xs
RECURSIVE AtPositions(_, _, _)
AtPositions(xs, P, j) ==
    IF j > Len(xs) THEN <<>>
    ELSE (IF j \in P THEN <<xs[j]>> ELSE <<>>) \o AtPositions(xs, P, j + 1)

RawSeq(xs) == [i \in 1..Len(xs) |-> Raw(xs[i])]

\* C7: with no truncation by display, search_naver keeps an item unless an
\* earlier item has the same identity key: the same non-empty link, or, both
\* links being empty, the same normalised content
C7_IdentityKey ==
    (pc = "s_done" /\ sCall = 1 /\ Len(all_results) < display)
        => RawSeq(sOut) = AtPositions(sGot, FirstPositions(sGot, SameKey), 1)

SameLink(a, b) == a.link = b.link

\* C8: what search_naver returns is the items of the pages received, each
\* link's first occurrence only, in the order received, cut at display; it
\* holds no link twice; and called on the list it returned, it returns that
\* list, whatever the call before has seen
C8_DedupStable ==
    pc = "s_done" =>
        /\ RawSeq(sOut) =
              Slice(AtPositions(RawSeq(sGot),
                                FirstPositions(sGot, SameLink), 1), display)
        /\ \A i, j \in 1..Len(sOut) : i # j => sOut[i].link # sOut[j].link
        /\ (sCall = 2 /\ sGot # <<>>) => sOut = sFeed

C8_Witness ==
    /\ pc = "s_done"
    /\ sCall = 2
    /\ sGot # <<>>
    /\ Len(sFeed) >= 2
    /\ sOut = sFeed

(***************************************************************************)
(* Specification Spec: one call of crawl_service_by_selection              *)
(***************************************************************************)
BlogPost(title, post, postdate) ==
    [Item(FALSE, title, <<>>, Link(TRUE, "blog.naver.com", "user1", post))
        EXCEPT !.postdate = postdate]

\* a blog post of mid June, one without a postdate, and one whose postdate
\* does not parse
BlogDated == BlogPost(<<"hu", "gi">>, 2, <<"2", "0", "2", "5", "0", "6", "1", "5">>)
BlogUndated == BlogPost(<<"hu", "gi", "2">>, 3, <<"missing">>)
BlogBadDate == BlogPost(<<"hu", "gi", "3">>, 4, <<"2", "0", "2", "5">>)

\* a blog post of mid June whose title holds a term of the news vocabulary
BlogNews == BlogPost(<<"N", "E", "W", "S">>, 5, <<"2", "0", "2", "5", "0", "6", "1", "5">>)

\* the pages of the first keyword's first two queries and of the second
\* keyword's first query; every other query is answered with an empty page
Index(p11, p12, p21) ==
    << <<p11, p12, <<>>, <<>>>>, <<p21, <<>>, <<>>, <<>>>>,
       <<<<>>, <<>>, <<>>, <<>>>> >>

NaverIndexes ==
    { [blog |-> Index(<<>>, <<>>, <<>>), cafe |-> Index(<<>>, <<>>, <<>>)],
      [blog |-> Index(<<BlogDated>>, <<BlogDated>>, <<>>),
       cafe |-> Index(<<>>, <<>>, <<>>)],
      [blog |-> Index(<<BlogDated>>, <<>>, <<BlogDated>>),
       cafe |-> Index(<<CafeUndated>>, <<>>, <<>>)],
      [blog |-> Index(<<BlogUndated, BlogDated>>, <<BlogBadDate>>, <<>>),
       cafe |-> Index(<<CafeUndated>>, <<>>, <<>>)],
      [blog |-> Index(<<BlogNews, BlogDated>>, <<>>, <<>>),
       cafe |-> Index(<<>>, <<>>, <<>>)] }

June == <<Stamp(<<2025, 6, 1>>, 0, <<"Z">>), Stamp(<<2025, 6, 30>>, 86399, <<"Z">>)>>

Year2025 == <<Stamp(<<2025, 1, 1>>, 0, <<"Z">>), Stamp(<<2025, 12, 31>>, 86399, <<"Z">>)>>

Ranges == {<<None, None>>, June, Year2025}

Init ==
    /\ pc = "c_start"
    /\ service_name \in {"ixio", "soho-package", Soho, Ixio, BizCall}
    /\ selected_channels \in SUBSET Channels
    /\ \E r \in Ranges : start_date = r[1] /\ end_date = r[2]
    /\ review_count \in {100, 6}
    /\ naver \in NaverIndexes
    /\ result = <<>>
    /\ fetched = <<>>
    /\ StripIdle
    /\ XIdle
    /\ FIdle
    /\ SIdle
    /\ BIdle

Next ==
    \/ CrawlStart
    \/ CrawlGoogle
    \/ CrawlApple
    \/ CrawlBlog
    \/ CrawlCafe

Spec == Init /\ [][Next]_vars

\* the items Naver holds for a channel, query by query
IndexItems(index) ==
    {index[k][q][i] : <<k, q, i>> \in
        {t \in (1..NumKeywords) \X (1..Len(queries)) \X (1..2) :
            t[3] <= Len(index[t[1]][t[2]])}}

\* the record of a blog item holds no usable date
NoUsableBlogDate(item) ==
    item.postdate = <<"missing">> \/ strptime_Ymd(item.postdate) = None

\* a cafe item no step of extract_real_date_only can date: its text states
\* no date, and its link admits no request and no post id
NoResolvableCafeDate(item) ==
    /\ ExplicitTextDate(combined_text(item)) = None
    /\ ~item.link.scheme
    /\ ~post_id_match(item.link)

\* the review is the one built of the item
ReviewOfItem(r, item) ==
    /\ r.link = item.link
    /\ r.content = clean_html(item.title) \o <<" ">> \o clean_html(item.description)

ChannelReviews(key) == IF key \in DOMAIN result THEN result[key] ELSE <<>>

CreatedDate(r) == r.createdAt.ymd

\* C5: with a date range, every review of the output, whatever its source,
\* has a createdAt whose calendar date lies in the range
C5_CreatedAtInRange ==
    (pc = "c_done" /\ HasRange(start_date, end_date)) =>
        \A key \in DOMAIN result :
           \A i \in 1..Len(result[key]) :
              /\ DateLE(start_date.ymd, CreatedDate(result[key][i]))
              /\ DateLE(CreatedDate(result[key][i]), end_date.ymd)

\* the queries of the index that answer with an item of the link
SlotsOfLink(index, link) ==
    {t \in (1..NumKeywords) \X (1..Len(queries)) :
        \E i \in 1..Len(index[t[1]][t[2]]) : index[t[1]][t[2]][i].link = link}

\* C6: a non-empty link that two different queries answer with, on items
\* the date filter lets through, has exactly one review in the output
C6_OneReviewPerLink ==
    (pc = "c_done" /\ "naverBlog" \in selected_channels) =>
        \A item \in IndexItems(naver.blog) :
           (/\ item.link # EmptyLink
            /\ BlogDate(item, start_date, end_date) # None
            /\ Cardinality(SlotsOfLink(naver.blog, item.link)) >= 2)
              => Cardinality({i \in 1..Len(ChannelReviews("naver_blog")) :
                    ChannelReviews("naver_blog")[i].link = item.link}) = 1

\* the content of the review the loops build of an item
ContentOf(item) ==
    clean_html(item.title) \o <<" ">> \o clean_html(item.description)

ItemFinished == pc = "f_wait" /\ pc' = "f_loop"

ItemKept == Len(filtered_results') = Len(filtered_results) + 1

\* the SOHO service, under its display name and under its key of services
SohoNames == {Soho, "soho-package"}

\* the lower-cased title + description holds a keyword of each group, as it
\* is received or with its tags removed
HasBothGroups(item) ==
    \/ SohoRelevant(text_content(item))
    \/ SohoRelevant(Lower(clean_content(item)))

\* C12: a cafe loop keeps an item of the SOHO service only if its
\* lower-cased title + description holds a keyword of each of the two
\* groups, and for any other service it keeps every dated item that is in
\* the range and is no news (none is rejected on relevance grounds)
C12_RelevanceRule ==
    [][ItemFinished =>
          /\ (fService \in SohoNames /\ ItemKept) => HasBothGroups(fItems[fIdx])
          /\ (/\ fService \notin SohoNames
              /\ xDate # None
              /\ fMode = "range" => InRange(xDate, fStart, fEnd)
              /\ ~IsNews(text_content(fItems[fIdx])))
                => ItemKept]_vars

C14_EmptySelectionRaises ==
    (service_name \in ServiceKeys /\ selected_channels = {})
        => pc \in {"c_start", "c_raised"}

\* the key of result an adapter's reviews are stored under
KeyOf(adapter) ==
    IF adapter = "crawl_google_play" THEN "google_play" ELSE "apple_store"

\* the reviews an adapter returned for an answer
Returned(f) ==
    IF f.adapter = "crawl_google_play"
    THEN crawl_google_play(f.answer, start_date, end_date)
    ELSE crawl_apple_store(f.answer, AppleCount, start_date, end_date)

\* the reviews of a list whose content is a text
WithText(rs) == SelectSeq(rs, LAMBDA r : r.content # NoneText)

\* C15: a store review that cannot be converted (its content is None) never
\* aborts the call; it is dropped, and the other reviews of the source are
\* in the output
C15_ItemErrorContained ==
    /\ pc # "c_type_error"
    /\ \A i \in 1..Len(fetched) :
          KeyOf(fetched[i].adapter) \in DOMAIN result
             => Len(result[KeyOf(fetched[i].adapter)])
                   = Len(WithText(Returned(fetched[i])))

\* the adapter failed: an exception or a status other than 200
Failed(answer) == answer.kind # "ok"

\* the standardised reviews of what an adapter returned
Standardised(f) ==
    IF f.adapter = "crawl_google_play"
    THEN google_results(Returned(f), service_name)
    ELSE apple_results(Returned(f), service_name)

\* C16: a source whose adapter fails has an empty list under its key and
\* the call goes on; the list of every other source is what that source's
\* own answer gives, whatever the other sources answered
C16_SourceIsolation ==
    /\ \A i \in 1..Len(fetched) :
          Failed(fetched[i].answer)
             => /\ KeyOf(fetched[i].adapter) \in DOMAIN result
                /\ result[KeyOf(fetched[i].adapter)] = <<>>
    /\ \A i \in 1..Len(fetched) :
          KeyOf(fetched[i].adapter) \in DOMAIN result
             => result[KeyOf(fetched[i].adapter)] = Standardised(fetched[i])
    /\ ("naverBlog" \in selected_channels /\ pc \in {"c_cafe", "c_done"}
        /\ ~CallBinds(search_naver_kwargs, search_naver_params))
          => "naver_blog" \in DOMAIN result /\ result["naver_blog"] = <<>>

C16_Witness ==
    /\ pc = "c_done"
    /\ selected_channels = Channels
    /\ Len(fetched) = 2
    /\ fetched[1].answer.kind = "exc"
    /\ fetched[2].answer.kind = "ok"
    /\ result["google_play"] = <<>>
    /\ result["apple_store"] # <<>>
    /\ result["naver_blog"] = <<>>

\* C20: every review of the output has a rating in 1..5
C20_RatingRange ==
    \A key \in DOMAIN result :
       \A i \in 1..Len(result[key]) : result[key][i].rating \in 1..5

\* the requests of a call none of whose requests was answered: the three of
\* step 2 and its HEAD when the link names cafe.naver.com and splits, and
\* the six of step 3
AllRequests(link) ==
    (IF HasCafeHost(link) /\ SplitHasTwo(link)
     THEN Len(urls_to_try) + 1 ELSE 0)
    + Len(enhanced_urls) * 2

NoCalibration(link) ==
    \/ link.cafe \notin DOMAIN cafe_patterns
    \/ cafe_patterns[link.cafe].type \notin CalibratedTypes
    \/ \A k \in 1..Len(cafe_patterns[link.cafe].patterns) :
          \/ link.post < cafe_patterns[link.cafe].patterns[k].id_start
          \/ link.post > cafe_patterns[link.cafe].patterns[k].id_end

\* the steps before step 4
EarlierTiers == {"ExplicitText", "PageMetadata", "HttpHeader"}

\* C18: when no earlier step gave a date and the link's cafe has no
\* calibration entry for the post, extract_real_date_only returns None
C18_DeclinesUncalibrated ==
    (xpc = "x_done" /\ xTier \notin EarlierTiers /\ NoCalibration(xItem.link))
        => xDate = None /\ xTier = "None"

C18_Witness ==
    /\ xpc = "x_done"
    /\ xTier = "None"
    /\ xDate = None
    /\ xItem.link.cafe = "rainup"
    /\ xItem.link.post = 3300100
    /\ Len(xHttp) = 10

\* C19: no date extract_real_date_only returns is computed from the post
\* id: each was read in the text, in a page or in the Last-Modified header
C19_NoComputedDate ==
    (xpc = "x_done" /\ xDate # None) => xTier \in EarlierTiers

\* the reviews of the dictionary returned, whatever their source
OutputReviews ==
    {result[k][i] : <<k, i>> \in
        {t \in (DOMAIN result) \X (1..3) : t[2] <= Len(result[t[1]])}}

\* C21: every review of the dictionary crawl_service_by_selection returns
\* has a content that is not empty once its markup is stripped
C21_NonEmptyContent ==
    pc = "c_done" =>
        \A r \in OutputReviews : strip_html(r.content) # <<>>

\* C22: every createdAt of the dictionary crawl_service_by_selection
\* returns ends in the one marker Z and carries no other zone
C22_CreatedAtUtc ==
    pc = "c_done" =>
        \A r \in OutputReviews : r.createdAt.zone = <<"Z">>

(***************************************************************************)
(* Specification SpecBlog: the loop of crawler.py:157-236 over the items   *)
(* of one blog search                                                      *)
(***************************************************************************)
\* a blog item with its author fields
BlogBy(name, bloggerlink, link, title, postdate) ==
    [Item(FALSE, title, <<>>, link)
        EXCEPT !.bloggername = name, !.bloggerlink = bloggerlink,
               !.postdate = postdate]

MidJune == <<"2", "0", "2", "5", "0", "6", "1", "5">>

\* a post with an author name and a profile link; one with a name and no
\* link of blog.naver.com; one with neither; one of early July with a
\* profile link only
BlogNamed ==
    BlogBy("writer1", Link(TRUE, "blog.naver.com", "user1", -1),
           Link(TRUE, "blog.naver.com", "user1", 6), <<"hu", "gi">>, MidJune)
BlogNameOnly ==
    BlogBy("writer2", EmptyLink, Link(TRUE, "post.naver.com", "", 7),
           <<"hu", "gi">>, MidJune)
BlogAnonymous ==
    BlogBy("", EmptyLink, Link(TRUE, "post.naver.com", "", 8),
           <<"hu", "gi">>, MidJune)
BlogJuly ==
    BlogBy("", Link(TRUE, "blog.naver.com", "user2", -1),
           Link(TRUE, "blog.naver.com", "user2", 9),
           <<"uu", "ri", "ga", "ge", " ", "L", "G">>,
           <<"2", "0", "2", "5", "0", "7", "0", "2">>)

BlogItems ==
    {BlogNamed, BlogNameOnly, BlogAnonymous, BlogJuly, BlogUndated, BlogNews}

\* the longest list a search hands back here
MaxBlogs == 2

BlogInit ==
    /\ pc = "b_loop"
    /\ service_name \in {"ixio", "soho-package", Soho}
    /\ \E r \in Ranges : start_date = r[1] /\ end_date = r[2]
    /\ naver_blogs \in SeqsUpTo(BlogItems, MaxBlogs)
    /\ bIdx = 1
    /\ blog_results = <<>>
    /\ bFrom = <<>>
    /\ selected_channels = {"naverBlog"}
    /\ review_count = 0
    /\ naver = <<>>
    /\ result = <<>>
    /\ fetched = <<>>
    /\ StripIdle
    /\ XIdle
    /\ FIdle
    /\ SIdle

\* crawler.py:157-236: one item of the list
BlogItem ==
    /\ pc = "b_loop"
    /\ bIdx <= Len(naver_blogs)
    /\ \E rs \in {BlogLoop(<<naver_blogs[bIdx]>>, service_name, start_date,
                           end_date)} :
          /\ blog_results' = blog_results \o rs
          /\ bFrom' = IF rs = <<>> THEN bFrom ELSE Append(bFrom, bIdx)
    /\ bIdx' = bIdx + 1
    /\ UNCHANGED <<pc, naver_blogs, notB>>

\* the list is exhausted
BlogLoopEnd ==
    /\ pc = "b_loop"
    /\ bIdx > Len(naver_blogs)
    /\ pc' = "b_done"
    /\ UNCHANGED <<bVars, notB>>

BlogNext ==
    \/ BlogItem
    \/ BlogLoopEnd

SpecBlog == BlogInit /\ [][BlogNext]_vars

\* the placeholder of a blog review without an author
BlogPlaceholder == <<"Unknown">>

\* the userId the stated order gives: the author name, else the id of the
\* profile or post URL, else the placeholder
UserIdNameFirst(blog) ==
    IF blog.bloggername # "" THEN <<blog.bloggername>>
    ELSE IF extract_user_id_from_url(blog.bloggerlink, blog.link, "blog") # <<>>
         THEN extract_user_id_from_url(blog.bloggerlink, blog.link, "blog")
         ELSE BlogPlaceholder

\* C23: the userId of a blog review is the item's bloggername when it has
\* one, else the id parsed from its URLs, else the placeholder
C23_UserIdOrder ==
    \A j \in 1..Len(blog_results) :
        blog_results[j].userId = UserIdNameFirst(naver_blogs[bFrom[j]])

\* C24: a call with one of the display names of service_mapping does not
\* raise the ValueError of an unknown service, and the reviews it returns
\* carry the id the name is mapped to
C24_DisplayNamesAccepted ==
    service_name \in DOMAIN service_mapping =>
        /\ pc # "c_raised"
        /\ pc = "c_done" =>
              \A r \in OutputReviews :
                  r.serviceId = service_mapping[service_name]

\* the page fetches a call has made
PageFetches == {i \in 1..Len(xHttp) : xHttp[i].method = "GET"}

\* C25: a date of the Last-Modified header is returned only after every
\* page fetch of both scraping passes (the URL forms of step 2, the URL
\* forms and header sets of step 3) was made and gave no date
C25_PageBeforeHeader ==
    (xpc = "x_done" /\ xTier = "HttpHeader") =>
        Cardinality(PageFetches)
            = Len(urls_to_try) + Len(enhanced_urls) * Len(headers_list)

\* the keys of the dictionary in the order the sources are taken up, and
\* the step that takes up each
SourceOrder == <<"google_play", "apple_store", "naver_blog", "naver_cafe">>

SourceSteps == <<"c_google", "c_apple", "c_blog", "c_cafe">>

\* a is b with some of its elements left out
RECURSIVE IsSubseq(_, _)
IsSubseq(a, b) ==
    IF a = <<>> THEN TRUE
    ELSE IF b = <<>> THEN FALSE
    ELSE IF Head(a) = Head(b) THEN IsSubseq(Tail(a), Tail(b))
    ELSE IsSubseq(a, Tail(b))

\* C26: the sources are taken up in the order google_play, apple_store,
\* naver_blog, naver_cafe, and the reviews of a source stand in the order
\* in which its adapter returned their items
C26_ProcessingOrder ==
    /\ \A k \in 1..Len(SourceSteps) :
          pc = SourceSteps[k] =>
             DOMAIN result \subseteq {SourceOrder[j] : j \in 1..(k - 1)}
    /\ \A i, j \in 1..Len(fetched) :
          i < j => /\ fetched[i].adapter = "crawl_google_play"
                   /\ fetched[j].adapter = "crawl_apple_store"
    /\ \A i \in 1..Len(fetched) :
          KeyOf(fetched[i].adapter) \in DOMAIN result =>
             IsSubseq([n \in 1..Len(result[KeyOf(fetched[i].adapter)]) |->
                          result[KeyOf(fetched[i].adapter)][n].userId],
                      [n \in 1..Len(Returned(fetched[i])) |->
                          Returned(fetched[i])[n].userName])

C26_Witness ==
    /\ pc = "c_done"
    /\ selected_channels = Channels
    /\ Len(fetched) = 2
    /\ DOMAIN result = {"google_play", "apple_store", "naver_blog", "naver_cafe"}
    /\ Len(result["google_play"]) = 2
    /\ Len(result["apple_store"]) = 2
    /\ result["google_play"][1].userId # result["google_play"][2].userId

\* the link of a post of a cafe
IdLink(cafe, post_id) == Link(TRUE, "cafe.naver.com", cafe, post_id)

\* post ids of a cafe's ranges: the ends of each range, their neighbours
\* and its middle
ProbeIds(cafe) ==
    UNION {{r.id_start, r.id_start + 1, (r.id_start + r.id_end) \div 2,
            r.id_end - 1, r.id_end} :
           r \in {cafe_patterns[cafe].patterns[k] :
                    k \in 1..Len(cafe_patterns[cafe].patterns)}}

SearchedBlogs(k) ==
    LET found == search_naver(naver.blog[k], "blog", review_count \div 3)
    IN {found[i] : i \in 1..Len(found)}

AcceptableBlogs(k) ==
    {b \in SearchedBlogs(k) :
        BlogLoop(<<b>>, service_name, start_date, end_date) # <<>>}

\* C28: when naverBlog is selected, every item a search of one of the
\* first keywords returns and the date and content filters accept has a
\* review in the naver_blog list of the dictionary returned
C28_NaverReachesOutput ==
    (pc = "c_done" /\ "naverBlog" \in selected_channels) =>
        \A k \in 1..NumKeywords :
            \A b \in AcceptableBlogs(k) :
                \E i \in 1..Len(result["naver_blog"]) :
                    result["naver_blog"][i].link = b.link

\* max(0, n)
AtLeastZero(n) == IF n > 0 THEN n ELSE 0

\* C29: filter_cafe_by_real_date_only takes up at most the first 30 items,
\* stops once max_results reviews are collected, returns at most
\* max(0, max_results) reviews in the order of their items, and an item
\* that raises is passed over while the items after it are still taken up
C29_BoundedFilter ==
    fMode = "range" =>
        /\ processed_count <= MaxProcessed
        /\ Len(fTier) <= processed_count
        /\ Len(filtered_results) <= AtLeastZero(fMax)
        /\ \A i, j \in 1..Len(fFrom) : i < j => fFrom[i] < fFrom[j]
        /\ \A j \in 1..Len(fFrom) :
              /\ fFrom[j] <= MaxProcessed
              /\ filtered_results[j].link = fItems[fFrom[j]].link
              /\ ~ItemRaises(fMode, fItems[fFrom[j]])
        /\ pc \in {"f_done", "f_checked"} =>
              processed_count =
                 IF Len(filtered_results) >= fMax
                 THEN (IF fFrom = <<>> THEN 0 ELSE fFrom[Len(fFrom)])
                 ELSE Min(Len(fItems), MaxProcessed)

C29_Witness ==
    /\ pc = "f_done"
    /\ fMode = "range"
    /\ Len(fItems) = MaxProcessed + 1
    /\ processed_count = MaxProcessed
    /\ Len(fTier) = MaxProcessed
    /\ excluded_count = MaxProcessed

\* the item's only written date is d in the Korean form with four digits
\* of year
OnlyDateIs(item, d) ==
    /\ ~item.isStr
    /\ item.title = DateText("kor4", d) \o <<" ", "hu", "gi">>
    /\ item.description = <<"hu", "gi">>

\* C30: when the only date of title and description has a four-digit year
\* outside 2020..2025, step 1 yields no date: the call never returns a
\* date of tier ExplicitText
C30_NoYearReinterpretation ==
    \A d \in WrittenDates :
        (d[1] \notin MinYear..MaxYear /\ OnlyDateIs(xItem, d)
         /\ xpc = "x_done")
            => xTier # "ExplicitText"
=============================================================================
